---------------------------- MODULE Spec2Model ----------------------------
(***************************************************************************)
(* Resilience and job-execution layer of the prediction-market backend:    *)
(*   - CircuitBreaker            backend/app/core/resilience.py            *)
(*   - with_async_retry          backend/app/core/resilience.py            *)
(*   - run_analysis_for_run_id   backend/app/services/phased_analysis.py   *)
(*   - run document persistence  backend/app/services/run_snapshot.py      *)
(*   - with_circuit_breaker      backend/app/core/resilience.py            *)
(*   - TTLCache, RedisCache      backend/app/core/cache.py                 *)
(*   - fetch_json_async          backend/app/core/polymarket_utils.py      *)
(*   - search_news               backend/app/services/tavily_client.py     *)
(*   - with_retry                backend/app/core/resilience.py            *)
(* Each component has its own specification (SpecCB, SpecRetry, SpecRun,   *)
(* SpecGuard, SpecThreads, SpecCache, SpecRedis, SpecCacheThreads,         *)
(* SpecClient, SpecClientKeys, SpecJobs, SpecRetryPair); the variables of  *)
(* the other components stay at their idle values.                         *)
(***************************************************************************)
EXTENDS Integers, Sequences, FiniteSets, TLC

VARIABLES
    \* ---- CircuitBreaker fields (resilience.py:52-58)
    failure_threshold, success_threshold, timeout,
    state, failure_count, success_count, last_failure_time,
    \* wall clock read by time.time()
    now,
    \* ---- observation of the last breaker call (history variables)
    cb_op,              \* name of the last operation called on the breaker
    cb_ret,             \* value returned by the last can_attempt()
    pre_op,             \* name of the operation called before the last one
    pre_state,          \* breaker state before the last operation
    pre_success_count,  \* success_count before the last operation
    fail_streak,        \* record_failure calls since CLOSED with failure_count 0
    succ_streak,        \* record_success calls since HALF_OPEN was entered
    \* ---- phased job runner (phased_analysis.py) and the runs collection
    pc,                 \* position of the job's task in run_analysis_for_run_id
    use_tavily_prompt_agent, use_news_summary_agent,   \* state["config"]
    requires_market_selection,                         \* state flag set by the market agent
    run_doc,            \* the document {"run_id": run_id} of the runs collection, or NoDoc
    other_runs,         \* run documents inserted without the job's run_id
    err_idx,            \* position of the error handler's loop over the phases
    \* ---- observation of the job (history variables)
    executed,           \* agents executed so far, in order
    writes,             \* run-document writes issued so far, with their outcome
    failed_phase,       \* phase of the stage that raised, or "none"
    \* ---- with_async_retry (resilience.py:164-204)
    max_attempts, base_delay, max_delay,   \* arguments
    attempt, last_exception,               \* locals
    rpc,                \* position: "loop", "sleep", "returned" or "raised"
    delay,              \* delay computed before the pending asyncio.sleep
    \* ---- observation of the retried call (history variables)
    calls,              \* invocations of func so far
    delays,             \* delays slept so far, in order
    returned_value,     \* k when the k-th invocation's result was returned
    raised_exception,   \* k when the k-th invocation's exception was raised,
                        \* Unexpected for the RuntimeError of line 204
    \* ---- TTLCache and RedisCache fields (cache.py)
    ttl,                \* self.ttl
    cache,              \* TTLCache._cache: key -> (value, timestamp), of the
                        \* in-process cache or of RedisCache._fallback_cache
    connected,          \* RedisCache._connected
    client,             \* RedisCache._client is not None
    has_fallback,       \* RedisCache has the attribute _fallback_cache
    redis_db,           \* the keys held by the Redis server
    \* ---- observation of the last cache call (history variables)
    c_op, c_key,        \* the last operation and its key
    c_ret,              \* value returned by the last get ("None" for None)
    c_value,            \* value handed to the last call if it was a set, else "None"
    c_removed,          \* number returned by the last cleanup_expired
    c_pre,              \* TTLCache._cache before the last cleanup_expired
    last_set,           \* per key, the latest TTLCache.set since the last clear
    c_backend,          \* the last operation called the Redis client
    c_error,            \* that call raised ConnectionError or RedisError
    c_raised,           \* exception the last operation raised to its caller
    ever_downgraded,    \* _connected has been False at some point
    pre_downgraded,     \* ever_downgraded before the last operation
    error_seen,         \* some operation of this instance hit a backend error
    pre_error_seen,     \* error_seen before the last operation
    \* ---- a call guarded by a breaker (resilience.py:142-161)
    gpc,                \* position of the wrapper: "idle" or "func"
    \* ---- observation of the guarded call (history variables)
    g_calls,            \* invocations of the underlying func so far
    g_pre_calls,        \* g_calls when the last invocation of the wrapper began
    g_outcome,          \* how the last invocation of the wrapper ended
    g_fail_run,         \* invocations in a row whose func raised
    \* ---- threads calling record_failure on one breaker
    tpc,                \* per thread, its position in record_failure
    tmp,                \* per thread, the failure_count it loaded
    \* ---- observation of the threads (history variables)
    t_started,          \* record_failure calls begun
    t_completed,        \* record_failure calls completed
    no_success,         \* no record_success was called so far
    \* ---- threads calling get, set and cleanup_expired on one TTLCache
    ctpc,               \* per thread, its position in the method it runs
    ct_key,             \* per thread, the key argument
    ct_entry,           \* per thread, the (value, timestamp) it read
    ct_expired,         \* per thread, the list `expired` of cleanup_expired
    \* ---- observation of the cache threads (history variables)
    ct_raised,          \* some call raised KeyError
    ct_removed_live,    \* some del removed an entry that was still live
    ct_count,           \* calls begun
    \* ---- a dependency client: fetch_json_async or search_news
    kpc,                \* position of the client: "idle", "breaker", "retry"
    k_kind,             \* which client: "polymarket" or "tavily"
    k_key,              \* cache_key of the last call
    k_before,           \* what the cache held, as gets would see it, when the call began
    \* ---- observation of the client call (history variables)
    k_step,             \* the last step of the client
    k_result,           \* what the last call gave its caller
    k_op,               \* outcome of the retried operation of the last call
    k_pre_fc,           \* failure_count when the call asked can_attempt
    k_successes,        \* record_success calls made by the last call
    k_failures,         \* record_failure calls made by the last call
    k_count,            \* calls begun
    \* ---- with_retry (resilience.py:126-139), run on the outcomes given to
    \* ---- with_async_retry
    outcomes,           \* outcomes[n]: the n-th invocation of func returns
    s_pc,               \* position: "call", "sleep", "returned" or "raised"
    s_attempt_number,   \* tenacity's retry_state.attempt_number
    s_delay,            \* wait computed before the pending sleep
    \* ---- observation of with_retry (history variables)
    s_calls,            \* invocations of func so far
    s_delays,           \* delays slept so far, in order
    s_returned,         \* k when the k-th invocation's result was returned
    s_raised,           \* k when the k-th invocation's exception was raised
    \* ---- concurrent jobs calling fetch_json_async (polymarket_utils.py:366-403)
    jpc,                \* per job: "idle", or "inflight" between can_attempt and record_*
    \* ---- observation of the jobs (history variables)
    j_admitted,         \* per job: breaker state when its last call was admitted
    j_period,           \* per job: the half-open period running at that admission
    period,             \* number of times the breaker entered HALF_OPEN
    j_count,            \* calls begun by all jobs
    stale_counted       \* a success of a call not admitted in the running
                        \* half-open period was counted by record_success

cbvars == <<failure_threshold, success_threshold, timeout, state, failure_count,
            success_count, last_failure_time, now, cb_op, cb_ret, pre_op, pre_state,
            pre_success_count, fail_streak, succ_streak>>

runvars == <<pc, use_tavily_prompt_agent, use_news_summary_agent,
             requires_market_selection, run_doc, other_runs, err_idx,
             executed, writes, failed_phase>>

retryvars == <<max_attempts, base_delay, max_delay, attempt, last_exception, rpc,
               delay, calls, delays, returned_value, raised_exception>>

cachevars == <<ttl, cache, connected, client, has_fallback, redis_db, c_op, c_key,
               c_ret, c_value, c_removed, c_pre, last_set, c_backend, c_error, c_raised,
               ever_downgraded, pre_downgraded, error_seen, pre_error_seen>>

guardvars == <<gpc, g_calls, g_pre_calls, g_outcome, g_fail_run>>

thrvars == <<tpc, tmp, t_started, t_completed, no_success>>

cthrvars == <<ctpc, ct_key, ct_entry, ct_expired, ct_raised, ct_removed_live, ct_count>>

clientvars == <<kpc, k_kind, k_key, k_before, k_step, k_result, k_op, k_pre_fc, k_successes, k_failures,
                k_count>>

syncvars == <<outcomes, s_pc, s_attempt_number, s_delay, s_calls, s_delays, s_returned,
              s_raised>>

jobvars == <<jpc, j_admitted, j_period, period, j_count, stale_counted>>

morevars == <<cthrvars, clientvars, syncvars, jobvars>>

vars == <<cbvars, runvars, retryvars, cachevars, guardvars, thrvars, morevars>>

-----------------------------------------------------------------------------
(* Bounds of the model *)

MaxFailureThreshold == 3
MaxSuccessThreshold == 2
MaxTimeout == 2
MaxTime == 3
MaxFailures == 4
MaxAttempts == 4
MaxBaseDelay == 2
MaxMaxDelay == 3
MaxTTL == 2
MaxCalls == 4
MaxThreadCalls == 3
MaxCacheCalls == 3
MaxClientCalls == 2
MaxKeyCalls == 3
MaxJobCalls == 4

None == -1
Unexpected == 0
Broken == None

CLOSED == "closed"
OPEN == "open"
HALF_OPEN == "half_open"

-----------------------------------------------------------------------------
(* CircuitBreaker *)

\* resilience.py:84  elif self.failure_count >= self.failure_threshold
threshold_reached_gt(count) == count > failure_threshold
threshold_reached(count) == count >= failure_threshold

\* resilience.py:64  if self.success_count >= self.success_threshold
success_threshold_reached_gt(count) == count > success_threshold
success_threshold_reached(count) == count >= success_threshold

\* resilience.py:94-97  last_failure_time is not None and
\*                      time.time() - last_failure_time >= timeout
timeout_elapsed_always == TRUE
timeout_elapsed ==
    /\ last_failure_time # None
    /\ now - last_failure_time >= timeout

\* resilience.py:75  self.last_failure_time = time.time()
record_failure_time_keep == last_failure_time
record_failure_time == now

\* resilience.py:67  self.failure_count = 0 (closing from half-open)
closing_failure_count_keep == failure_count
closing_failure_count == 0

\* resilience.py:113  self.last_failure_time = None (reset)
reset_last_failure_time_keep == last_failure_time
reset_last_failure_time == None

\* resilience.py:83  self.success_count = 0 (failure while half-open)
half_open_failure_success_count_keep == success_count
half_open_failure_success_count == 0

observe(op) ==
    /\ cb_op' = op
    /\ pre_op' = cb_op
    /\ pre_state' = state
    /\ pre_success_count' = success_count

cb_config == <<failure_threshold, success_threshold, timeout>>

\* CircuitBreaker.__init__
CircuitBreakerInit ==
    /\ failure_threshold \in 1..MaxFailureThreshold
    /\ success_threshold \in 1..MaxSuccessThreshold
    /\ timeout \in 0..MaxTimeout
    /\ state = CLOSED
    /\ failure_count = 0
    /\ success_count = 0
    /\ last_failure_time = None
    /\ now = 0
    /\ cb_op = "init"
    /\ pre_op = "init"
    /\ cb_ret = TRUE
    /\ pre_state = CLOSED
    /\ pre_success_count = 0
    /\ fail_streak = 0
    /\ succ_streak = Broken

\* a breaker nobody calls (specifications of the other components)
CBIdle ==
    /\ CircuitBreakerInit
    /\ failure_threshold = 1
    /\ success_threshold = 1
    /\ timeout = 0

\* resilience.py:69  elif self.state == CircuitState.CLOSED
success_clears_failures_unless_half_open(st) == st # HALF_OPEN
success_clears_failures(st) == st = CLOSED

\* CircuitBreaker.record_success
record_success ==
    /\ observe("record_success")
    /\ IF state = HALF_OPEN
       THEN IF success_threshold_reached(success_count + 1)
            THEN /\ state' = CLOSED
                 /\ failure_count' = closing_failure_count
                 /\ success_count' = 0
            ELSE /\ success_count' = success_count + 1
                 /\ UNCHANGED <<state, failure_count>>
       ELSE IF success_clears_failures(state)
            THEN /\ failure_count' = 0
                 /\ UNCHANGED <<state, success_count>>
            ELSE UNCHANGED <<state, failure_count, success_count>>
    /\ fail_streak' = IF state' = CLOSED /\ failure_count' = 0 THEN 0 ELSE Broken
    /\ succ_streak' = IF succ_streak = Broken \/ succ_streak >= success_threshold
                      THEN Broken ELSE succ_streak + 1
    /\ UNCHANGED <<cb_config, last_failure_time, now, cb_ret>>

\* CircuitBreaker.record_failure
record_failure ==
    /\ failure_count < MaxFailures
    /\ observe("record_failure")
    /\ failure_count' = failure_count + 1
    /\ last_failure_time' = record_failure_time
    /\ IF state = HALF_OPEN
       THEN /\ state' = OPEN
            /\ success_count' = half_open_failure_success_count
       ELSE IF threshold_reached(failure_count + 1)
            THEN /\ state' = OPEN
                 /\ UNCHANGED success_count
            ELSE UNCHANGED <<state, success_count>>
    /\ fail_streak' = IF fail_streak = Broken THEN Broken ELSE fail_streak + 1
    /\ succ_streak' = Broken
    /\ UNCHANGED <<cb_config, now, cb_ret>>

\* CircuitBreaker.can_attempt
can_attempt ==
    /\ observe("can_attempt")
    /\ IF state = CLOSED
       THEN /\ cb_ret' = TRUE
            /\ UNCHANGED <<state, success_count, fail_streak, succ_streak>>
       ELSE IF state = OPEN
            THEN IF timeout_elapsed
                 THEN /\ state' = HALF_OPEN
                      /\ success_count' = 0
                      /\ cb_ret' = TRUE
                      /\ fail_streak' = Broken
                      /\ succ_streak' = 0
                 ELSE /\ cb_ret' = FALSE
                      /\ UNCHANGED <<state, success_count, fail_streak, succ_streak>>
            ELSE /\ cb_ret' = TRUE
                 /\ UNCHANGED <<state, success_count, fail_streak, succ_streak>>
    /\ UNCHANGED <<cb_config, failure_count, last_failure_time, now>>

\* CircuitBreaker.reset
reset ==
    /\ observe("reset")
    /\ state' = CLOSED
    /\ failure_count' = 0
    /\ success_count' = 0
    /\ last_failure_time' = reset_last_failure_time
    /\ fail_streak' = 0
    /\ succ_streak' = Broken
    /\ UNCHANGED <<cb_config, now, cb_ret>>

\* time.time() advances between calls
Tick ==
    /\ now < MaxTime
    /\ observe("tick")
    /\ now' = now + 1
    /\ UNCHANGED <<cb_config, state, failure_count, success_count, last_failure_time,
                   cb_ret, fail_streak, succ_streak>>

-----------------------------------------------------------------------------
(* A call guarded by a breaker: the wrapper of with_circuit_breaker, and the *)
(* same sequence written out in fetch_json_async and _generate_signal_sync  *)

\* resilience.py:148  if not circuit.can_attempt(): raise RuntimeError(...)
wrapper_refuses_never(ret) == FALSE

wrapper_refuses(ret) == ~ret

GuardInit ==
    /\ gpc = "idle"
    /\ g_calls = 0
    /\ g_pre_calls = 0
    /\ g_outcome = "none"
    /\ g_fail_run = 0

\* resilience.py:148-152  the wrapper asks can_attempt(), then raises the
\* RuntimeError or calls func
wrapper_enter ==
    /\ gpc = "idle"
    /\ g_calls < MaxCalls
    /\ can_attempt
    /\ g_pre_calls' = g_calls
    /\ IF wrapper_refuses(cb_ret')
       THEN /\ g_outcome' = "refused"
            /\ UNCHANGED <<gpc, g_calls>>
       ELSE /\ g_outcome' = "running"
            /\ gpc' = "func"
            /\ g_calls' = g_calls + 1
    /\ UNCHANGED g_fail_run

\* resilience.py:152-154  func returns: record_success(), return result
func_returns ==
    /\ gpc = "func"
    /\ record_success
    /\ gpc' = "idle"
    /\ g_outcome' = "returned"
    /\ g_fail_run' = 0
    /\ UNCHANGED <<g_calls, g_pre_calls>>

\* resilience.py:155-157  func raises: record_failure(), raise exc
func_raises ==
    /\ gpc = "func"
    /\ record_failure
    /\ gpc' = "idle"
    /\ g_outcome' = "raised"
    /\ g_fail_run' = g_fail_run + 1
    /\ UNCHANGED <<g_calls, g_pre_calls>>

\* analyze.py:286-296  the reset endpoint, between two guarded calls
guard_reset ==
    /\ gpc = "idle"
    /\ reset
    /\ g_fail_run' = 0
    /\ UNCHANGED <<gpc, g_calls, g_pre_calls, g_outcome>>

-----------------------------------------------------------------------------
(* record_failure and record_success called from several threads: the       *)
(* executor threads of OpenAIClient.generate_signal share openai_circuit,   *)
(* and CircuitBreaker takes no lock                                         *)

Threads == {"t1", "t2"}

ThreadsInit ==
    /\ tpc = [t \in Threads |-> "idle"]
    /\ tmp = [t \in Threads |-> 0]
    /\ t_started = 0
    /\ t_completed = 0
    /\ no_success = TRUE

\* resilience.py:74  self.failure_count += 1, the load of self.failure_count
rf_load(t) ==
    /\ tpc[t] = "idle"
    /\ t_started < MaxThreadCalls
    /\ t_started' = t_started + 1
    /\ tmp' = [tmp EXCEPT ![t] = failure_count]
    /\ tpc' = [tpc EXCEPT ![t] = "store"]
    /\ UNCHANGED <<cbvars, t_completed, no_success>>

\* resilience.py:74  self.failure_count += 1, the store of the sum
rf_store(t) ==
    /\ tpc[t] = "store"
    /\ failure_count' = tmp[t] + 1
    /\ tpc' = [tpc EXCEPT ![t] = "time"]
    /\ UNCHANGED <<cb_config, state, success_count, last_failure_time, now, cb_op,
                   cb_ret, pre_op, pre_state, pre_success_count, fail_streak,
                   succ_streak, tmp, t_started, t_completed, no_success>>

\* resilience.py:75  self.last_failure_time = time.time()
rf_time(t) ==
    /\ tpc[t] = "time"
    /\ last_failure_time' = record_failure_time
    /\ tpc' = [tpc EXCEPT ![t] = "check"]
    /\ UNCHANGED <<cb_config, state, failure_count, success_count, now, cb_op,
                   cb_ret, pre_op, pre_state, pre_success_count, fail_streak,
                   succ_streak, tmp, t_started, t_completed, no_success>>

\* resilience.py:77-86  the state test and the assignments that follow it
rf_check(t) ==
    /\ tpc[t] = "check"
    /\ observe("record_failure")
    /\ IF state = HALF_OPEN
       THEN /\ state' = OPEN
            /\ success_count' = half_open_failure_success_count
       ELSE IF threshold_reached(failure_count)
            THEN /\ state' = OPEN
                 /\ UNCHANGED success_count
            ELSE UNCHANGED <<state, success_count>>
    /\ fail_streak' = IF fail_streak = Broken THEN Broken ELSE fail_streak + 1
    /\ succ_streak' = Broken
    /\ tpc' = [tpc EXCEPT ![t] = "idle"]
    /\ t_completed' = t_completed + 1
    /\ UNCHANGED <<cb_config, failure_count, last_failure_time, now, cb_ret,
                   tmp, t_started, no_success>>

\* CircuitBreaker.record_success called by a thread
thread_record_success(t) ==
    /\ tpc[t] = "idle"
    /\ record_success
    /\ no_success' = FALSE
    /\ UNCHANGED <<tpc, tmp, t_started, t_completed>>

-----------------------------------------------------------------------------
(* Run document and its persistence (run_snapshot.py) *)

Phases == <<"market", "news", "signal", "report">>
PhaseSet == {"market", "news", "signal", "report"}
PhaseIndex(p) == CHOOSE i \in 1..Len(Phases) : Phases[i] = p

FieldNames == {"market_snapshot", "event_context", "market_options",
               "news_context", "signal", "decision", "report"}

\* run_snapshot.py:244-288  the keys of data each phase copies into the document
PhaseFields(phase) ==
    CASE phase = "market" -> {"market_snapshot", "event_context", "market_options"}
      [] phase = "news"   -> {"news_context"}
      [] phase = "signal" -> {"signal", "decision"}
      [] phase = "report" -> {"report"}

\* A document of the runs collection as init_run_document_async builds it:
\* every output empty ({}), no market_options key, every phase pending.
PendingRunDocument ==
    [ exists |-> TRUE,
      status |-> [p \in PhaseSet |-> "pending"],
      fields |-> [f \in FieldNames |->
                     IF f = "market_options" THEN "absent" ELSE "empty"],
      ids    |-> "unset" ]

NoDoc == [PendingRunDocument EXCEPT !.exists = FALSE]

\* run_snapshot.py:181-222  insert_one of the pending document
init_run_document_async == PendingRunDocument

\* run_snapshot.py:225-301  update_one({"run_id": run_id}, {"$set": update_doc}):
\* no document matched (matched_count == 0) changes nothing.
update_run_phase_async_without_status(doc, phase, status, data) ==
    IF ~doc.exists THEN doc
    ELSE [doc EXCEPT
            !.fields = [f \in FieldNames |->
                          IF f \in (DOMAIN data) \cap PhaseFields(phase)
                          THEN data[f] ELSE doc.fields[f]]]
update_run_phase_async(doc, phase, status, data) ==
    IF ~doc.exists THEN doc
    ELSE [doc EXCEPT
            !.status[phase] = status,
            !.fields = [f \in FieldNames |->
                          IF f \in (DOMAIN data) \cap PhaseFields(phase)
                          THEN data[f] ELSE doc.fields[f]]]

\* run_snapshot.py:304-329  $set of event_id, market_id and slug
update_run_with_event_and_market_async(doc) ==
    IF ~doc.exists THEN doc ELSE [doc EXCEPT !.ids = "set"]

\* run_snapshot.py:146-178  create_run_async(build_run_document(state, ...)):
\* insert_one of a new document that carries no run_id and no status; the
\* document of the job is not touched.
persist_run_snapshot_async_replace(doc) == PendingRunDocument
persist_run_snapshot_async(doc) == doc

-----------------------------------------------------------------------------
(* Phased runner (phased_analysis.py) *)

Agents == {"market_agent", "event_agent", "tavily_prompt_agent", "news_agent",
           "news_summary_agent", "prob_agent", "strategy_agent", "report_agent"}

\* the phase whose block of run_analysis_for_run_id calls the agent
\* (PHASE 1: lines 58-61, PHASE 2: 112-125, PHASE 3: 148-152)
PhaseOf(agent) ==
    CASE agent \in {"market_agent", "event_agent"} -> "market"
      [] agent \in {"tavily_prompt_agent", "news_agent", "news_summary_agent"} -> "news"
      [] OTHER -> "signal"

\* the state key each agent fills
Producer(f) ==
    CASE f = "market_snapshot" -> "market_agent"
      [] f = "market_options"  -> "market_agent"
      [] f = "event_context"   -> "event_agent"
      [] f = "news_context"    -> "news_agent"
      [] f = "signal"          -> "prob_agent"
      [] f = "decision"        -> "strategy_agent"
      [] f = "report"          -> "report_agent"

Range(seq) == {seq[i] : i \in 1..Len(seq)}

\* state.get(key, {}) on the in-memory state
state_get(f) == IF Producer(f) \in Range(executed) THEN "out" ELSE "empty"

Data(keys) == [f \in keys |-> state_get(f)]

\* phased_analysis.py:218  for phase in ["market", "news", "signal", "report"]
error_phases_without_report == <<"market", "news", "signal">>
error_phases == <<"market", "news", "signal", "report">>

Write(phase, status, ok) == [phase |-> phase, status |-> status, ok |-> ok]

job_config == <<use_tavily_prompt_agent, use_news_summary_agent>>

RunIdle ==
    /\ pc = "idle"
    /\ use_tavily_prompt_agent = TRUE
    /\ use_news_summary_agent = TRUE
    /\ requires_market_selection = FALSE
    /\ run_doc = NoDoc
    /\ other_runs = 0
    /\ err_idx = 1
    /\ executed = <<>>
    /\ writes = <<>>
    /\ failed_phase = "none"

RunInit ==
    /\ pc = "start"
    /\ use_tavily_prompt_agent \in BOOLEAN
    /\ use_news_summary_agent \in BOOLEAN
    /\ requires_market_selection = FALSE
    /\ run_doc = NoDoc
    /\ other_runs = 0
    /\ err_idx = 1
    /\ executed = <<>>
    /\ writes = <<>>
    /\ failed_phase = "none"

\* analyze.py:198-259  analyze_start: create the run document (a failure is
\* logged and swallowed), then start the background task.
analyze_start ==
    /\ pc = "start"
    /\ \E ok \in BOOLEAN :
         /\ run_doc' = IF ok THEN init_run_document_async ELSE run_doc
         /\ writes' = Append(writes, Write("all", "pending", ok))
    /\ pc' = "market_agent"
    /\ UNCHANGED <<job_config, requires_market_selection, other_runs, err_idx,
                   executed, failed_phase>>

news_pipeline_start ==
    IF use_tavily_prompt_agent THEN "tavily_prompt_agent" ELSE "news_agent"

\* where the task continues after an agent returned
AfterAgent(agent, selection) ==
    CASE agent = "market_agent"        -> "event_agent"
      [] agent = "event_agent"         ->
            IF selection THEN "update_selection" ELSE "update_market"
      [] agent = "tavily_prompt_agent" -> "news_agent"
      [] agent = "news_agent"          ->
            IF use_news_summary_agent THEN "news_summary_agent" ELSE "update_news"
      [] agent = "news_summary_agent"  -> "update_news"
      [] agent = "prob_agent"          -> "strategy_agent"
      [] agent = "strategy_agent"      -> "report_agent"
      [] agent = "report_agent"        -> "update_signal"

\* an agent returns the updated state
StageReturns(agent) ==
    /\ pc = agent
    /\ executed' = Append(executed, agent)
    /\ IF agent = "market_agent"
       THEN requires_market_selection' \in BOOLEAN
       ELSE UNCHANGED requires_market_selection
    /\ pc' = AfterAgent(agent, requires_market_selection')
    /\ UNCHANGED <<job_config, run_doc, other_runs, err_idx, writes, failed_phase>>

\* an agent raises: control moves to the handler at line 209
StageRaises(agent) ==
    /\ pc = agent
    /\ executed' = Append(executed, agent)
    /\ failed_phase' = PhaseOf(agent)
    /\ err_idx' = 1
    /\ pc' = "mark_error"
    /\ UNCHANGED <<job_config, requires_market_selection, run_doc, other_runs, writes>>

\* one awaited update_run_phase_async(run_id, phase, "done", data): applied,
\* or raising (and caught by the enclosing try) without being applied
PhaseUpdate(at, phase, keys, next_ok, next_failed) ==
    /\ pc = at
    /\ \E ok \in BOOLEAN :
         /\ run_doc' = IF ok
                       THEN update_run_phase_async(run_doc, phase, "done", Data(keys))
                       ELSE run_doc
         /\ writes' = Append(writes, Write(phase, "done", ok))
         /\ pc' = IF ok THEN next_ok ELSE next_failed
    /\ UNCHANGED <<job_config, requires_market_selection, other_runs, err_idx,
                   executed, failed_phase>>

\* phased_analysis.py:64-85  market selection required: one update, then return
update_selection_without_return ==
    PhaseUpdate("update_selection", "market", {"event_context", "market_options"},
                news_pipeline_start, news_pipeline_start)
update_selection ==
    PhaseUpdate("update_selection", "market", {"event_context", "market_options"},
                "returned", "returned")

\* phased_analysis.py:88-97
update_market ==
    PhaseUpdate("update_market", "market", {"market_snapshot", "event_context"},
                "update_ids", news_pipeline_start)

\* phased_analysis.py:99-108
update_ids ==
    /\ pc = "update_ids"
    /\ \E ok \in BOOLEAN :
         /\ run_doc' = IF ok THEN update_run_with_event_and_market_async(run_doc)
                       ELSE run_doc
         /\ writes' = Append(writes, Write("ids", "set", ok))
    /\ pc' = news_pipeline_start
    /\ UNCHANGED <<job_config, requires_market_selection, other_runs, err_idx,
                   executed, failed_phase>>

\* phased_analysis.py:127-144  a failure is logged, the task continues
update_news_propagates ==
    PhaseUpdate("update_news", "news", {"news_context"}, "prob_agent", "mark_error")
update_news ==
    PhaseUpdate("update_news", "news", {"news_context"}, "prob_agent", "prob_agent")

\* phased_analysis.py:166-175  a failure here skips the report update too
update_signal ==
    PhaseUpdate("update_signal", "signal", {"signal", "decision"},
                "update_report", "persist_snapshot")

\* phased_analysis.py:177-192
update_report ==
    PhaseUpdate("update_report", "report", {"report"},
                "persist_snapshot", "persist_snapshot")

\* phased_analysis.py:200-207  except Exception as persist_error: log, go on
\* to the end of the function
after_snapshot_failure_handler == "mark_error"
after_snapshot_failure == "returned"

\* phased_analysis.py:196-207  final persistence; a failure is logged and swallowed
persist_snapshot ==
    /\ pc = "persist_snapshot"
    /\ \E ok \in BOOLEAN :
         /\ run_doc' = IF ok THEN persist_run_snapshot_async(run_doc) ELSE run_doc
         /\ other_runs' = IF ok THEN other_runs + 1 ELSE other_runs
         /\ writes' = Append(writes, Write("snapshot", "final", ok))
         /\ pc' = IF ok THEN "returned" ELSE after_snapshot_failure
    /\ UNCHANGED <<job_config, requires_market_selection, err_idx, executed,
                   failed_phase>>

\* phased_analysis.py:228  raise
handler_exit_swallow == "returned"
handler_exit == "raised"

\* phased_analysis.py:220  update_run_phase_async(run_id, phase, "error"): no data
error_data_empty_outputs == [f \in FieldNames |-> "empty"]
error_data == <<>>

\* phased_analysis.py:209-228  one iteration of the handler's loop; after the
\* last one the exception is re-raised
mark_error ==
    /\ pc = "mark_error"
    /\ err_idx <= Len(error_phases)
    /\ \E ok \in BOOLEAN :
         /\ run_doc' = IF ok
                       THEN update_run_phase_async(run_doc, error_phases[err_idx],
                                                   "error", error_data)
                       ELSE run_doc
         /\ writes' = Append(writes, Write(error_phases[err_idx], "error", ok))
    /\ err_idx' = err_idx + 1
    /\ pc' = IF err_idx + 1 > Len(error_phases) THEN handler_exit ELSE "mark_error"
    /\ UNCHANGED <<job_config, requires_market_selection, other_runs, executed,
                   failed_phase>>

-----------------------------------------------------------------------------
(* with_async_retry (resilience.py:164-204) *)

RECURSIVE Pow2(_)
Pow2(n) == IF n <= 0 THEN 1 ELSE 2 * Pow2(n - 1)

Min(a, b) == IF a <= b THEN a ELSE b

\* resilience.py:176  while attempt < max_attempts
loop_continues(a) == a < max_attempts

\* resilience.py:182  if attempt >= max_attempts
attempts_exhausted_early(a) == a + 1 >= max_attempts
attempts_exhausted(a) == a >= max_attempts

\* resilience.py:191  delay = min(base_delay * (2 ** (attempt - 1)), max_delay)
backoff_delay_next_exponent(a) == Min(base_delay * Pow2(a), max_delay)
backoff_delay(a) == Min(base_delay * Pow2(a - 1), max_delay)

retry_args == <<max_attempts, base_delay, max_delay>>

RetryStart ==
    /\ attempt = 0
    /\ last_exception = None
    /\ rpc = "loop"
    /\ delay = 0
    /\ calls = 0
    /\ delays = <<>>
    /\ returned_value = None
    /\ raised_exception = None

\* a call of with_async_retry with arguments from the bounded sets
RetryInit ==
    /\ max_attempts \in 0..MaxAttempts
    /\ base_delay \in 1..MaxBaseDelay
    /\ max_delay \in 1..MaxMaxDelay
    /\ RetryStart

\* no retried call (specifications of the other components)
RetryIdle ==
    /\ max_attempts = 0
    /\ base_delay = 1
    /\ max_delay = 1
    /\ RetryStart

\* resilience.py:177-178  await func(...) returns: its result is returned
attempt_returns ==
    /\ rpc = "loop"
    /\ loop_continues(attempt)
    /\ calls' = calls + 1
    /\ returned_value' = calls + 1
    /\ rpc' = "returned"
    /\ UNCHANGED <<retry_args, attempt, last_exception, delay, delays,
                   raised_exception>>

\* resilience.py:179-191  await func(...) raises e: the last attempt re-raises
\* it, an earlier one computes the delay to sleep
attempt_raises_wait_always ==
    /\ rpc = "loop"
    /\ loop_continues(attempt)
    /\ calls' = calls + 1
    /\ attempt' = attempt + 1
    /\ last_exception' = calls + 1
    /\ delay' = backoff_delay(attempt + 1)
    /\ rpc' = "sleep"
    /\ UNCHANGED <<retry_args, delays, returned_value, raised_exception>>
attempt_raises ==
    /\ rpc = "loop"
    /\ loop_continues(attempt)
    /\ calls' = calls + 1
    /\ attempt' = attempt + 1
    /\ last_exception' = calls + 1
    /\ IF attempts_exhausted(attempt + 1)
       THEN /\ raised_exception' = calls + 1
            /\ rpc' = "raised"
            /\ UNCHANGED delay
       ELSE /\ delay' = backoff_delay(attempt + 1)
            /\ rpc' = "sleep"
            /\ UNCHANGED raised_exception
    /\ UNCHANGED <<retry_args, delays, returned_value>>

\* resilience.py:189  bare raise inside the except block: the exception object
\* func raised propagates as it is; the attempt count goes to the log record
\* (lines 183-188) and no attribute or note is added to the exception
propagated(e) == [failure |-> e, attempts |-> None]

\* resilience.py:200  await asyncio.sleep(delay)
retry_sleep ==
    /\ rpc = "sleep"
    /\ delays' = Append(delays, delay)
    /\ rpc' = "loop"
    /\ UNCHANGED <<retry_args, attempt, last_exception, delay, calls,
                   returned_value, raised_exception>>

\* resilience.py:202-204  the loop ended without returning or raising
loop_exits ==
    /\ rpc = "loop"
    /\ ~loop_continues(attempt)
    /\ raised_exception' = IF last_exception # None THEN last_exception ELSE Unexpected
    /\ rpc' = "raised"
    /\ UNCHANGED <<retry_args, attempt, last_exception, delay, calls, delays,
                   returned_value>>

-----------------------------------------------------------------------------
(* TTLCache and RedisCache (cache.py) *)

Keys == {"k1", "k2"}

\* values handed to set(): a JSON string, a tuple (JSON writes it as a list)
\* and a set (json.dumps raises TypeError)
Values == {"str", "tuple"}
Unserializable == "set"

\* cache.py:128  json.dumps(value).encode("utf-8")
json_dumps(value) == IF value = "tuple" THEN "b_list" ELSE "b_str"

\* cache.py:137  json.loads(value.decode("utf-8"))
json_loads(bytes) == IF bytes = "b_list" THEN "list" ELSE "str"

\* a key that is not in the dict
NoEntry == [value |-> "None", ts |-> None]

EmptyStore == [k \in Keys |-> NoEntry]

\* cache.py:40  time.time() - timestamp < self.ttl
entry_visible_le(e, t) == t - e.ts <= ttl

entry_visible(e, t) == t - e.ts < ttl

\* cache.py:57  now - ts >= self.ttl
entry_expired_gt(e, t) == t - e.ts > ttl

entry_expired(e, t) == t - e.ts >= ttl

\* TTLCache.get: the value returned ("None" for None)
TTLCache_get_value(store, key, t) ==
    IF store[key] # NoEntry /\ entry_visible(store[key], t)
    THEN store[key].value
    ELSE "None"

\* TTLCache.get: the dict afterwards (an expired entry is deleted)
TTLCache_get_store(store, key, t) ==
    IF store[key] # NoEntry /\ ~entry_visible(store[key], t)
    THEN [store EXCEPT ![key] = NoEntry]
    ELSE store

\* TTLCache.set
TTLCache_set_store(store, key, value, t) ==
    [store EXCEPT ![key] = [value |-> value, ts |-> t]]

\* TTLCache.cleanup_expired: the list `expired`
expired_keys(store, t) ==
    {k \in Keys : store[k] # NoEntry /\ entry_expired(store[k], t)}

\* TTLCache.cleanup_expired: the dict afterwards
TTLCache_cleanup_store(store, t) ==
    [k \in Keys |-> IF k \in expired_keys(store, t) THEN NoEntry ELSE store[k]]

\* RedisCache.get/set/clear/cleanup_expired, first line:
\* if not self._connected or not self._client
use_fallback_client_only(conn, cli) == ~cli

use_fallback(conn, cli) == ~conn \/ ~cli

\* the except branch of RedisCache.clear leaves _connected as it is
connected_after_clear_error(conn) == conn

\* the except branch of RedisCache.get and RedisCache.set: self._connected = False
connected_after_error_keep(conn) == conn

connected_after_error(conn) == FALSE

\* redis GET: nil once the SETEX expiry has passed
redis_get(key) ==
    IF redis_db[key] # NoEntry /\ now - redis_db[key].ts < ttl
    THEN redis_db[key].value
    ELSE "None"

cache_fields == <<ttl, cache, connected, client, has_fallback, redis_db>>

\* record the call for the properties
cache_call(op, key, value) ==
    /\ c_op' = op
    /\ c_key' = key
    /\ c_value' = value
    /\ pre_downgraded' = ever_downgraded
    /\ pre_error_seen' = error_seen

cache_observe(op, key) == cache_call(op, key, "None")

\* ghost values of a call that never reaches the distributed backend
no_backend ==
    /\ c_backend' = FALSE
    /\ c_error' = FALSE
    /\ UNCHANGED <<error_seen, ever_downgraded>>

CacheStart ==
    /\ cache = EmptyStore
    /\ redis_db = EmptyStore
    /\ c_op = "init"
    /\ c_key = "k1"
    /\ c_ret = "None"
    /\ c_value = "None"
    /\ c_removed = 0
    /\ c_pre = EmptyStore
    /\ last_set = EmptyStore
    /\ c_backend = FALSE
    /\ c_error = FALSE
    /\ c_raised = "none"
    /\ pre_downgraded = FALSE
    /\ pre_error_seen = FALSE
    /\ error_seen = FALSE

\* TTLCache.__init__
TTLCacheInit ==
    /\ ttl \in 0..MaxTTL
    /\ connected = FALSE
    /\ client = FALSE
    /\ has_fallback = TRUE
    /\ ever_downgraded = TRUE
    /\ CacheStart

\* RedisCache.__init__: no url or host, the connection fails, or ping() answers
RedisCacheInit ==
    /\ ttl \in 1..MaxTTL
    /\ \E ping_ok \in BOOLEAN :
          /\ connected = ping_ok
          /\ client = ping_ok
          /\ has_fallback = ~ping_ok
          /\ ever_downgraded = ~ping_ok
    /\ CacheStart

\* no cache in use (specifications of the other components)
CacheIdle ==
    /\ ttl = 0
    /\ connected = FALSE
    /\ client = FALSE
    /\ has_fallback = TRUE
    /\ ever_downgraded = TRUE
    /\ CacheStart

\* TTLCache.get(key)
TTLCache_get(key) ==
    /\ cache_observe("get", key)
    /\ no_backend
    /\ c_ret' = TTLCache_get_value(cache, key, now)
    /\ cache' = TTLCache_get_store(cache, key, now)
    /\ c_removed' = 0
    /\ c_pre' = EmptyStore
    /\ c_raised' = "none"
    /\ UNCHANGED <<ttl, connected, client, has_fallback, redis_db, last_set>>

\* TTLCache.set(key, value)
TTLCache_set(key, value) ==
    /\ cache_call("set", key, value)
    /\ no_backend
    /\ cache' = TTLCache_set_store(cache, key, value, now)
    /\ last_set' = [last_set EXCEPT ![key] = [value |-> value, ts |-> now]]
    /\ c_ret' = "None"
    /\ c_removed' = 0
    /\ c_pre' = EmptyStore
    /\ c_raised' = "none"
    /\ UNCHANGED <<ttl, connected, client, has_fallback, redis_db>>

\* TTLCache.clear()
TTLCache_clear ==
    /\ cache_observe("clear", "k1")
    /\ no_backend
    /\ cache' = EmptyStore
    /\ last_set' = EmptyStore
    /\ c_ret' = "None"
    /\ c_removed' = 0
    /\ c_pre' = EmptyStore
    /\ c_raised' = "none"
    /\ UNCHANGED <<ttl, connected, client, has_fallback, redis_db>>

\* TTLCache.cleanup_expired()
TTLCache_cleanup_expired ==
    /\ cache_observe("cleanup_expired", "k1")
    /\ no_backend
    /\ cache' = TTLCache_cleanup_store(cache, now)
    /\ c_removed' = Cardinality(expired_keys(cache, now))
    /\ c_pre' = cache
    /\ c_ret' = "None"
    /\ c_raised' = "none"
    /\ UNCHANGED <<ttl, connected, client, has_fallback, redis_db, last_set>>

\* time.time() advances between two calls on the cache
CacheTick ==
    /\ Tick
    /\ c_op' = "tick"
    /\ UNCHANGED <<cache_fields, c_key, c_ret, c_value, c_removed, c_pre, last_set, c_backend,
                   c_error, c_raised, ever_downgraded, pre_downgraded, error_seen,
                   pre_error_seen>>

\* RedisCache.get(key); backend_error: self._client.get raises
\* ConnectionError or RedisError
RedisCache_get(key, backend_error) ==
    /\ cache_observe("get", key)
    /\ c_removed' = 0
    /\ c_pre' = EmptyStore
    /\ c_raised' = "none"
    /\ IF use_fallback(connected, client)
       THEN /\ no_backend
            /\ c_ret' = TTLCache_get_value(cache, key, now)
            /\ cache' = TTLCache_get_store(cache, key, now)
            /\ UNCHANGED <<connected, has_fallback>>
       ELSE /\ c_backend' = TRUE
            /\ c_error' = backend_error
            /\ IF backend_error
               THEN /\ connected' = connected_after_error(connected)
                    /\ has_fallback' = TRUE
                    /\ c_ret' = TTLCache_get_value(cache, key, now)
                    /\ cache' = TTLCache_get_store(cache, key, now)
                    /\ error_seen' = TRUE
                    /\ ever_downgraded' = (ever_downgraded \/ ~connected')
               ELSE /\ c_ret' = IF redis_get(key) = "None" THEN "None"
                                ELSE json_loads(redis_get(key))
                    /\ UNCHANGED <<connected, has_fallback, cache, error_seen,
                                   ever_downgraded>>
    /\ UNCHANGED <<ttl, client, redis_db, last_set>>

\* RedisCache.set(key, value); backend_error: self._client.setex raises
RedisCache_set(key, value, backend_error) ==
    /\ cache_call("set", key, value)
    /\ c_ret' = "None"
    /\ c_removed' = 0
    /\ c_pre' = EmptyStore
    /\ IF use_fallback(connected, client)
       THEN /\ no_backend
            /\ c_raised' = "none"
            /\ cache' = TTLCache_set_store(cache, key, value, now)
            /\ UNCHANGED <<connected, has_fallback, redis_db>>
       ELSE IF value = Unserializable
       THEN \* _serialize re-raises the TypeError, which set() does not catch
            /\ no_backend
            /\ c_raised' = "TypeError"
            /\ UNCHANGED <<connected, has_fallback, redis_db, cache>>
       ELSE /\ c_backend' = TRUE
            /\ c_error' = backend_error
            /\ c_raised' = "none"
            /\ IF backend_error
               THEN /\ connected' = connected_after_error(connected)
                    /\ has_fallback' = TRUE
                    /\ cache' = TTLCache_set_store(cache, key, value, now)
                    /\ error_seen' = TRUE
                    /\ ever_downgraded' = (ever_downgraded \/ ~connected')
                    /\ UNCHANGED redis_db
               ELSE /\ redis_db' = [redis_db EXCEPT
                                      ![key] = [value |-> json_dumps(value), ts |-> now]]
                    /\ UNCHANGED <<connected, has_fallback, cache, error_seen,
                                   ever_downgraded>>
    /\ UNCHANGED <<ttl, client, last_set>>

\* RedisCache.clear(); backend_error: self._client.flushdb raises
RedisCache_clear(backend_error) ==
    /\ cache_observe("clear", "k1")
    /\ c_ret' = "None"
    /\ c_removed' = 0
    /\ c_pre' = EmptyStore
    /\ c_raised' = "none"
    /\ IF use_fallback(connected, client)
       THEN /\ no_backend
            /\ cache' = EmptyStore
            /\ UNCHANGED <<connected, has_fallback, redis_db>>
       ELSE /\ c_backend' = TRUE
            /\ c_error' = backend_error
            /\ IF backend_error
               THEN /\ connected' = connected_after_clear_error(connected)
                    /\ has_fallback' = TRUE
                    /\ cache' = EmptyStore
                    /\ error_seen' = TRUE
                    /\ ever_downgraded' = (ever_downgraded \/ ~connected')
                    /\ UNCHANGED redis_db
               ELSE /\ redis_db' = EmptyStore
                    /\ UNCHANGED <<connected, has_fallback, cache, error_seen,
                                   ever_downgraded>>
    /\ UNCHANGED <<ttl, client, last_set>>

\* RedisCache.cleanup_expired()
RedisCache_cleanup_expired ==
    /\ cache_observe("cleanup_expired", "k1")
    /\ no_backend
    /\ c_ret' = "None"
    /\ c_raised' = "none"
    /\ IF use_fallback(connected, client)
       THEN /\ cache' = TTLCache_cleanup_store(cache, now)
            /\ c_removed' = Cardinality(expired_keys(cache, now))
            /\ c_pre' = cache
       ELSE /\ c_removed' = 0
            /\ c_pre' = EmptyStore
            /\ UNCHANGED cache
    /\ UNCHANGED <<ttl, connected, client, has_fallback, redis_db, last_set>>

-----------------------------------------------------------------------------
(* TTLCache.get, set and cleanup_expired called from several threads: the    *)
(* executor threads of OpenAIClient.generate_signal share openai_cache, and *)
(* TTLCache takes no lock                                                   *)

\* every cache variable but the dict itself
cache_rest == <<ttl, connected, client, has_fallback, redis_db, c_op, c_key, c_ret,
                c_value, c_removed, c_pre, last_set, c_backend, c_error, c_raised,
                ever_downgraded, pre_downgraded, error_seen, pre_error_seen>>

CacheThreadsInit ==
    /\ ctpc = [t \in Threads |-> "idle"]
    /\ ct_key = [t \in Threads |-> "k1"]
    /\ ct_entry = [t \in Threads |-> NoEntry]
    /\ ct_expired = [t \in Threads |-> {}]
    /\ ct_raised = FALSE
    /\ ct_removed_live = FALSE
    /\ ct_count = 0

\* cache.py:38  if key in self._cache
get_contains(t, key) ==
    /\ ctpc[t] = "idle"
    /\ ct_count < MaxCacheCalls
    /\ ct_count' = ct_count + 1
    /\ ct_key' = [ct_key EXCEPT ![t] = key]
    /\ ctpc' = [ctpc EXCEPT ![t] = IF cache[key] # NoEntry THEN "read" ELSE "idle"]
    /\ UNCHANGED <<cache, ct_entry, ct_expired, ct_raised, ct_removed_live>>

\* cache.py:39  value, timestamp = self._cache[key]  (KeyError when the key
\* has been deleted since line 38)
get_read(t) ==
    /\ ctpc[t] = "read"
    /\ IF cache[ct_key[t]] = NoEntry
       THEN /\ ct_raised' = TRUE
            /\ ctpc' = [ctpc EXCEPT ![t] = "idle"]
            /\ UNCHANGED ct_entry
       ELSE /\ ct_entry' = [ct_entry EXCEPT ![t] = cache[ct_key[t]]]
            /\ ctpc' = [ctpc EXCEPT ![t] = "test"]
            /\ UNCHANGED ct_raised
    /\ UNCHANGED <<cache, ct_key, ct_expired, ct_removed_live, ct_count>>

\* cache.py:40-41  if time.time() - timestamp < self.ttl: return value
get_test(t) ==
    /\ ctpc[t] = "test"
    /\ ctpc' = [ctpc EXCEPT ![t] = IF entry_visible(ct_entry[t], now)
                                   THEN "idle" ELSE "del"]
    /\ UNCHANGED <<cache, ct_key, ct_entry, ct_expired, ct_raised, ct_removed_live,
                   ct_count>>

\* cache.py:43  del self._cache[key]: deletes whatever the key holds now
get_del(t) ==
    /\ ctpc[t] = "del"
    /\ IF cache[ct_key[t]] = NoEntry
       THEN /\ ct_raised' = TRUE
            /\ UNCHANGED <<cache, ct_removed_live>>
       ELSE /\ cache' = [cache EXCEPT ![ct_key[t]] = NoEntry]
            /\ ct_removed_live' = (ct_removed_live
                                     \/ entry_visible(cache[ct_key[t]], now))
            /\ UNCHANGED ct_raised
    /\ ctpc' = [ctpc EXCEPT ![t] = "idle"]
    /\ UNCHANGED <<ct_key, ct_entry, ct_expired, ct_count>>

\* cache.py:48  self._cache[key] = (value, time.time())
thread_set(t, key, value) ==
    /\ ctpc[t] = "idle"
    /\ ct_count < MaxCacheCalls
    /\ ct_count' = ct_count + 1
    /\ cache' = TTLCache_set_store(cache, key, value, now)
    /\ UNCHANGED <<ctpc, ct_key, ct_entry, ct_expired, ct_raised, ct_removed_live>>

\* cache.py:56-57  now = time.time(); expired = [k for ... if now - ts >= ttl]
cleanup_scan(t) ==
    /\ ctpc[t] = "idle"
    /\ ct_count < MaxCacheCalls
    /\ ct_count' = ct_count + 1
    /\ ct_expired' = [ct_expired EXCEPT ![t] = expired_keys(cache, now)]
    /\ ctpc' = [ctpc EXCEPT ![t] = IF expired_keys(cache, now) = {}
                                   THEN "idle" ELSE "cleanup_del"]
    /\ UNCHANGED <<cache, ct_key, ct_entry, ct_raised, ct_removed_live>>

\* cache.py:58-59  for k in expired: del self._cache[k]
cleanup_del(t) ==
    /\ ctpc[t] = "cleanup_del"
    /\ \E k \in ct_expired[t] :
          /\ IF cache[k] = NoEntry
             THEN /\ ct_raised' = TRUE
                  /\ ctpc' = [ctpc EXCEPT ![t] = "idle"]
                  /\ ct_expired' = [ct_expired EXCEPT ![t] = {}]
                  /\ UNCHANGED <<cache, ct_removed_live>>
             ELSE /\ cache' = [cache EXCEPT ![k] = NoEntry]
                  /\ ct_removed_live' = (ct_removed_live
                                           \/ entry_visible(cache[k], now))
                  /\ ct_expired' = [ct_expired EXCEPT ![t] = @ \ {k}]
                  /\ ctpc' = [ctpc EXCEPT ![t] = IF ct_expired[t] = {k}
                                                 THEN "idle" ELSE "cleanup_del"]
                  /\ UNCHANGED ct_raised
    /\ UNCHANGED <<ct_key, ct_entry, ct_count>>

-----------------------------------------------------------------------------
(* A dependency client: fetch_json_async (polymarket_utils.py:366-403) and   *)
(* search_news (tavily_client.py:120-206).  Both read the cache, ask the     *)
(* breaker once, run the operation under with_async_retry, then store the    *)
(* result and record one outcome on the breaker.                             *)

ClientKinds == {"polymarket", "tavily"}

\* the key of the request
client_key == "k1"

\* what the client hands to cache.set: the decoded JSON body
\* (polymarket_utils.py:394) or the TavilySearchResult model, which
\* json.dumps rejects (tavily_client.py:184-187)
client_value(kind) == IF kind = "polymarket" THEN "str" ELSE Unserializable

\* polymarket_utils.py:379 / tavily_client.py:167  if not circuit.can_attempt()
client_refuses_never(ret) == FALSE

client_refuses(ret) == ~ret

\* polymarket_utils.py:381 raises RuntimeError; tavily_client.py:169 returns
\* the empty result
refusal_result(kind) == IF kind = "polymarket" THEN "RuntimeError" ELSE "fallback"

\* polymarket_utils.py:400-403 re-raises; tavily_client.py:202-206 returns the
\* empty result
failure_result(kind) == IF kind = "polymarket" THEN "exception" ELSE "fallback"

ClientInit ==
    /\ kpc = "idle"
    /\ k_kind \in ClientKinds
    /\ k_key = client_key
    /\ k_before = EmptyStore
    /\ k_step = "init"
    /\ k_result = "none"
    /\ k_op = "none"
    /\ k_pre_fc = 0
    /\ k_successes = 0
    /\ k_failures = 0
    /\ k_count = 0

\* the locals of a new call of with_async_retry
RetryRestart ==
    /\ attempt' = 0
    /\ last_exception' = None
    /\ rpc' = "loop"
    /\ delay' = 0
    /\ calls' = 0
    /\ delays' = <<>>
    /\ returned_value' = None
    /\ raised_exception' = None
    /\ UNCHANGED retry_args

\* the entries a get at time t would see: the fallback dict on a disconnected
\* instance, else the keys of the Redis server, decoded
visible_content(t) ==
    [k \in Keys |->
        IF use_fallback(connected, client)
        THEN IF cache[k] # NoEntry /\ entry_visible(cache[k], t) THEN cache[k] ELSE NoEntry
        ELSE IF redis_db[k] # NoEntry /\ t - redis_db[k].ts < ttl
             THEN [value |-> json_loads(redis_db[k].value), ts |-> redis_db[k].ts]
             ELSE NoEntry]

\* the entries of store that have not expired at time t
still_visible(store, t) ==
    [k \in Keys |->
        IF store[k] # NoEntry /\ entry_visible(store[k], t) THEN store[k] ELSE NoEntry]

\* polymarket_utils.py:374 / tavily_client.py:145  if cached_result is not None
cache_hit_never(ret) == FALSE

cache_hit(ret) == ret # "None"

\* polymarket_utils.py:371-376 / tavily_client.py:141-164  cache lookup; a hit
\* is returned at once
client_lookup(key) ==
    /\ kpc = "idle"
    /\ k_count' = k_count + 1
    /\ k_key' = key
    /\ k_before' = visible_content(now)
    /\ \E backend_error \in BOOLEAN : RedisCache_get(key, backend_error)
    /\ RetryRestart
    /\ k_step' = "get"
    /\ k_op' = "none"
    /\ k_pre_fc' = failure_count
    /\ k_successes' = 0
    /\ k_failures' = 0
    /\ IF cache_hit(c_ret')
       THEN /\ k_result' = "cached"
            /\ UNCHANGED kpc
       ELSE /\ k_result' = "none"
            /\ kpc' = "breaker"
    /\ UNCHANGED <<k_kind, cbvars>>

\* a call for the one key client_key
client_get ==
    /\ k_count < MaxClientCalls
    /\ client_lookup(client_key)

\* a call for any key: the breaker and the cache of a client are module
\* globals shared by the calls for all urls and queries
client_get_any ==
    /\ k_count < MaxKeyCalls
    /\ \E key \in Keys : client_lookup(key)

\* polymarket_utils.py:378-381 / tavily_client.py:166-169
client_can_attempt ==
    /\ kpc = "breaker"
    /\ can_attempt
    /\ k_step' = "can_attempt"
    /\ k_pre_fc' = failure_count
    /\ IF client_refuses(cb_ret')
       THEN /\ k_result' = refusal_result(k_kind)
            /\ kpc' = "idle"
       ELSE /\ k_result' = "none"
            /\ kpc' = "retry"
    /\ UNCHANGED <<k_kind, k_key, k_before, k_op, k_successes, k_failures, k_count, retryvars,
                   cachevars>>

\* polymarket_utils.py:385-393 / tavily_client.py:173-181  one step of
\* with_async_retry inside the client
client_retry_step ==
    /\ kpc = "retry"
    /\ \/ attempt_returns
       \/ attempt_raises
       \/ retry_sleep
    /\ UNCHANGED <<clientvars, cbvars, cachevars>>

\* polymarket_utils.py:394-398 / tavily_client.py:183-200  with_async_retry
\* returned: cache.set, then record_success; an exception of cache.set is
\* caught by the except branch, which records a failure
client_success ==
    /\ kpc = "retry"
    /\ rpc = "returned"
    /\ \E backend_error \in BOOLEAN :
          RedisCache_set(k_key, client_value(k_kind), backend_error)
    /\ IF c_raised' = "none"
       THEN /\ record_success
            /\ k_successes' = k_successes + 1
            /\ k_failures' = k_failures
            /\ k_result' = "value"
       ELSE /\ record_failure
            /\ k_successes' = k_successes
            /\ k_failures' = k_failures + 1
            /\ k_result' = failure_result(k_kind)
    /\ k_step' = "success"
    /\ k_op' = "ok"
    /\ kpc' = "idle"
    /\ UNCHANGED <<k_kind, k_key, k_before, k_pre_fc, k_count, retryvars>>

\* polymarket_utils.py:400-403 / tavily_client.py:202-206  with_async_retry
\* raised: record_failure, then re-raise or return the empty result
client_failure_caching ==
    /\ kpc = "retry"
    /\ rpc = "raised"
    /\ record_failure
    /\ RedisCache_set(k_key, "str", FALSE)
    /\ k_failures' = k_failures + 1
    /\ k_result' = failure_result(k_kind)
    /\ k_step' = "failure"
    /\ k_op' = "failed"
    /\ kpc' = "idle"
    /\ UNCHANGED <<k_kind, k_key, k_before, k_pre_fc, k_successes, k_count, retryvars>>
client_failure ==
    /\ kpc = "retry"
    /\ rpc = "raised"
    /\ record_failure
    /\ k_failures' = k_failures + 1
    /\ k_result' = failure_result(k_kind)
    /\ k_step' = "failure"
    /\ k_op' = "failed"
    /\ kpc' = "idle"
    /\ UNCHANGED <<k_kind, k_key, k_before, k_pre_fc, k_successes, k_count, retryvars, cachevars>>

-----------------------------------------------------------------------------
(* Concurrent jobs sharing one breaker: every job's task runs
   fetch_json_async on the event loop, polymarket_circuit is a module global
   (resilience.py:121), and a task is suspended inside with_async_retry
   between its can_attempt() and its record_success() / record_failure() *)

Jobs == {"j1", "j2"}

JobsInit ==
    /\ jpc = [j \in Jobs |-> "idle"]
    /\ j_admitted = [j \in Jobs |-> "none"]
    /\ j_period = [j \in Jobs |-> 0]
    /\ period = 0
    /\ j_count = 0
    /\ stale_counted = FALSE

\* the call of job j was admitted in the half-open period that is running now
admitted_in_current_period(j) == j_admitted[j] = HALF_OPEN /\ j_period[j] = period

\* polymarket_utils.py:379-381  if not polymarket_circuit.can_attempt(): raise;
\* an admitted call goes on to await with_async_retry
job_can_attempt(j) ==
    /\ jpc[j] = "idle"
    /\ j_count < MaxJobCalls
    /\ j_count' = j_count + 1
    /\ can_attempt
    /\ period' = IF state = OPEN /\ state' = HALF_OPEN THEN period + 1 ELSE period
    /\ IF cb_ret'
       THEN /\ jpc' = [jpc EXCEPT ![j] = "inflight"]
            /\ j_admitted' = [j_admitted EXCEPT ![j] = state']
            /\ j_period' = [j_period EXCEPT ![j] = period']
       ELSE UNCHANGED <<jpc, j_admitted, j_period>>
    /\ UNCHANGED stale_counted

\* polymarket_utils.py:385-398  with_async_retry returned: the decoded JSON is
\* cached (a store that cannot raise) and record_success is called
job_returns(j) ==
    /\ jpc[j] = "inflight"
    /\ record_success
    /\ stale_counted' = (stale_counted
                           \/ (state = HALF_OPEN /\ ~admitted_in_current_period(j)))
    /\ jpc' = [jpc EXCEPT ![j] = "idle"]
    /\ UNCHANGED <<j_admitted, j_period, period, j_count>>

\* polymarket_utils.py:400-403  with_async_retry raised: record_failure, raise
job_raises(j) ==
    /\ jpc[j] = "inflight"
    /\ record_failure
    /\ jpc' = [jpc EXCEPT ![j] = "idle"]
    /\ UNCHANGED <<j_admitted, j_period, period, j_count, stale_counted>>

-----------------------------------------------------------------------------
(* Idle values of the dependency client and of with_retry *)

ClientIdle ==
    /\ kpc = "idle"
    /\ k_kind = "polymarket"
    /\ k_key = client_key
    /\ k_before = EmptyStore
    /\ k_step = "init"
    /\ k_result = "none"
    /\ k_op = "none"
    /\ k_pre_fc = 0
    /\ k_successes = 0
    /\ k_failures = 0
    /\ k_count = 0

SyncIdle ==
    /\ outcomes = <<>>
    /\ s_pc = "call"
    /\ s_attempt_number = 1
    /\ s_delay = 0
    /\ s_calls = 0
    /\ s_delays = <<>>
    /\ s_returned = None
    /\ s_raised = None

\* nothing but the component under study runs
MoreIdle == CacheThreadsInit /\ ClientIdle /\ SyncIdle /\ JobsInit

-----------------------------------------------------------------------------
(* Specification of one call of with_async_retry *)

InitRetry == RetryInit /\ CBIdle /\ RunIdle /\ CacheIdle /\ GuardInit /\ ThreadsInit /\ MoreIdle

NextRetry ==
    \/ attempt_returns /\ UNCHANGED <<cbvars, runvars, cachevars, guardvars, thrvars, morevars>>
    \/ attempt_raises /\ UNCHANGED <<cbvars, runvars, cachevars, guardvars, thrvars, morevars>>
    \/ retry_sleep /\ UNCHANGED <<cbvars, runvars, cachevars, guardvars, thrvars, morevars>>
    \/ loop_exits /\ UNCHANGED <<cbvars, runvars, cachevars, guardvars, thrvars, morevars>>

SpecRetry == InitRetry /\ [][NextRetry]_vars

-----------------------------------------------------------------------------
(* Specification of one job: analyze_start, then its background task *)

InitRun == RunInit /\ CBIdle /\ RetryIdle /\ CacheIdle /\ GuardInit /\ ThreadsInit /\ MoreIdle

NextRun ==
    \/ analyze_start /\ UNCHANGED <<cbvars, retryvars, cachevars, guardvars, thrvars, morevars>>
    \/ (\E agent \in Agents : StageReturns(agent)) /\ UNCHANGED <<cbvars, retryvars, cachevars, guardvars, thrvars, morevars>>
    \/ (\E agent \in Agents : StageRaises(agent)) /\ UNCHANGED <<cbvars, retryvars, cachevars, guardvars, thrvars, morevars>>
    \/ update_selection /\ UNCHANGED <<cbvars, retryvars, cachevars, guardvars, thrvars, morevars>>
    \/ update_market /\ UNCHANGED <<cbvars, retryvars, cachevars, guardvars, thrvars, morevars>>
    \/ update_ids /\ UNCHANGED <<cbvars, retryvars, cachevars, guardvars, thrvars, morevars>>
    \/ update_news /\ UNCHANGED <<cbvars, retryvars, cachevars, guardvars, thrvars, morevars>>
    \/ update_signal /\ UNCHANGED <<cbvars, retryvars, cachevars, guardvars, thrvars, morevars>>
    \/ update_report /\ UNCHANGED <<cbvars, retryvars, cachevars, guardvars, thrvars, morevars>>
    \/ persist_snapshot /\ UNCHANGED <<cbvars, retryvars, cachevars, guardvars, thrvars, morevars>>
    \/ mark_error /\ UNCHANGED <<cbvars, retryvars, cachevars, guardvars, thrvars, morevars>>

SpecRun == InitRun /\ [][NextRun]_vars
-----------------------------------------------------------------------------
(* Specification of one breaker under any sequence of calls *)

InitCB == CircuitBreakerInit /\ RunIdle /\ RetryIdle /\ CacheIdle /\ GuardInit /\ ThreadsInit /\ MoreIdle

NextCB ==
    \/ record_success /\ UNCHANGED <<runvars, retryvars, cachevars, guardvars, thrvars, morevars>>
    \/ record_failure /\ UNCHANGED <<runvars, retryvars, cachevars, guardvars, thrvars, morevars>>
    \/ can_attempt /\ UNCHANGED <<runvars, retryvars, cachevars, guardvars, thrvars, morevars>>
    \/ reset /\ UNCHANGED <<runvars, retryvars, cachevars, guardvars, thrvars, morevars>>
    \/ Tick /\ UNCHANGED <<runvars, retryvars, cachevars, guardvars, thrvars, morevars>>

SpecCB == InitCB /\ [][NextCB]_vars

-----------------------------------------------------------------------------
(* Specification of one in-process TTLCache under any sequence of calls *)

InitCache == TTLCacheInit /\ CBIdle /\ RunIdle /\ RetryIdle /\ GuardInit /\ ThreadsInit /\ MoreIdle

NextCache ==
    \/ (\E key \in Keys : TTLCache_get(key)) /\ UNCHANGED <<cbvars, runvars, retryvars, guardvars, thrvars, morevars>>
    \/ (\E key \in Keys, value \in Values : TTLCache_set(key, value))
          /\ UNCHANGED <<cbvars, runvars, retryvars, guardvars, thrvars, morevars>>
    \/ TTLCache_clear /\ UNCHANGED <<cbvars, runvars, retryvars, guardvars, thrvars, morevars>>
    \/ TTLCache_cleanup_expired /\ UNCHANGED <<cbvars, runvars, retryvars, guardvars, thrvars, morevars>>
    \/ CacheTick /\ UNCHANGED <<runvars, retryvars, guardvars, thrvars, morevars>>

SpecCache == InitCache /\ [][NextCache]_vars

-----------------------------------------------------------------------------
(* Specification of one RedisCache; every call of the Redis client may fail *)

InitRedis == RedisCacheInit /\ CBIdle /\ RunIdle /\ RetryIdle /\ GuardInit /\ ThreadsInit /\ MoreIdle

NextRedis ==
    \/ (\E key \in Keys, backend_error \in BOOLEAN : RedisCache_get(key, backend_error))
          /\ UNCHANGED <<cbvars, runvars, retryvars, guardvars, thrvars, morevars>>
    \/ (\E key \in Keys, value \in Values \cup {Unserializable},
            backend_error \in BOOLEAN : RedisCache_set(key, value, backend_error))
          /\ UNCHANGED <<cbvars, runvars, retryvars, guardvars, thrvars, morevars>>
    \/ (\E backend_error \in BOOLEAN : RedisCache_clear(backend_error))
          /\ UNCHANGED <<cbvars, runvars, retryvars, guardvars, thrvars, morevars>>
    \/ RedisCache_cleanup_expired /\ UNCHANGED <<cbvars, runvars, retryvars, guardvars, thrvars, morevars>>
    \/ CacheTick /\ UNCHANGED <<runvars, retryvars, guardvars, thrvars, morevars>>

SpecRedis == InitRedis /\ [][NextRedis]_vars

-----------------------------------------------------------------------------
(* Specification of the calls guarded by one breaker *)

InitGuard == CircuitBreakerInit /\ GuardInit /\ RunIdle /\ RetryIdle /\ CacheIdle /\ ThreadsInit /\ MoreIdle

NextGuard ==
    \/ wrapper_enter /\ UNCHANGED <<runvars, retryvars, cachevars, thrvars, morevars>>
    \/ func_returns /\ UNCHANGED <<runvars, retryvars, cachevars, thrvars, morevars>>
    \/ func_raises /\ UNCHANGED <<runvars, retryvars, cachevars, thrvars, morevars>>
    \/ guard_reset /\ UNCHANGED <<runvars, retryvars, cachevars, thrvars, morevars>>
    \/ Tick /\ UNCHANGED <<runvars, retryvars, cachevars, guardvars, thrvars, morevars>>

SpecGuard == InitGuard /\ [][NextGuard]_vars

-----------------------------------------------------------------------------
(* Specification of one breaker called from several threads *)

InitThreads == CircuitBreakerInit /\ ThreadsInit /\ RunIdle /\ RetryIdle /\ CacheIdle /\ GuardInit /\ MoreIdle

NextThreads ==
    \/ (\E t \in Threads : rf_load(t)) /\ UNCHANGED <<runvars, retryvars, cachevars, guardvars, morevars>>
    \/ (\E t \in Threads : rf_store(t)) /\ UNCHANGED <<runvars, retryvars, cachevars, guardvars, morevars>>
    \/ (\E t \in Threads : rf_time(t)) /\ UNCHANGED <<runvars, retryvars, cachevars, guardvars, morevars>>
    \/ (\E t \in Threads : rf_check(t)) /\ UNCHANGED <<runvars, retryvars, cachevars, guardvars, morevars>>
    \/ (\E t \in Threads : thread_record_success(t))
          /\ UNCHANGED <<runvars, retryvars, cachevars, guardvars, morevars>>
    \/ Tick /\ UNCHANGED <<runvars, retryvars, cachevars, guardvars, thrvars, morevars>>

SpecThreads == InitThreads /\ [][NextThreads]_vars

-----------------------------------------------------------------------------
(* Specification of one TTLCache called from several threads *)

InitCacheThreads ==
    /\ TTLCacheInit /\ CacheThreadsInit /\ ClientIdle /\ SyncIdle /\ JobsInit
    /\ CBIdle /\ RunIdle /\ RetryIdle /\ GuardInit /\ ThreadsInit

CacheThreadsFrame ==
    UNCHANGED <<cbvars, runvars, retryvars, guardvars, thrvars, clientvars, syncvars,
                jobvars, cache_rest>>

NextCacheThreads ==
    \/ (\E t \in Threads, key \in Keys : get_contains(t, key)) /\ CacheThreadsFrame
    \/ (\E t \in Threads : get_read(t)) /\ CacheThreadsFrame
    \/ (\E t \in Threads : get_test(t)) /\ CacheThreadsFrame
    \/ (\E t \in Threads : get_del(t)) /\ CacheThreadsFrame
    \/ (\E t \in Threads, key \in Keys, value \in Values : thread_set(t, key, value))
          /\ CacheThreadsFrame
    \/ (\E t \in Threads : cleanup_scan(t)) /\ CacheThreadsFrame
    \/ (\E t \in Threads : cleanup_del(t)) /\ CacheThreadsFrame
    \/ CacheTick /\ UNCHANGED <<runvars, retryvars, guardvars, thrvars, morevars>>

SpecCacheThreads == InitCacheThreads /\ [][NextCacheThreads]_vars

-----------------------------------------------------------------------------
(* Specification of one dependency client with its breaker and its cache *)

InitClient ==
    /\ CircuitBreakerInit /\ RedisCacheInit /\ ClientInit
    /\ success_threshold = 1
    /\ ttl = 1
    /\ max_attempts \in 1..MaxAttempts
    /\ base_delay = 1
    /\ max_delay = MaxMaxDelay
    /\ RetryStart
    /\ RunIdle /\ GuardInit /\ ThreadsInit /\ CacheThreadsInit /\ SyncIdle /\ JobsInit

ClientFrame == UNCHANGED <<runvars, guardvars, thrvars, cthrvars, syncvars, jobvars>>

NextClient ==
    \/ client_get /\ ClientFrame
    \/ client_can_attempt /\ ClientFrame
    \/ client_retry_step /\ ClientFrame
    \/ client_success /\ ClientFrame
    \/ client_failure /\ ClientFrame
    \/ CacheTick /\ UNCHANGED <<runvars, retryvars, guardvars, thrvars, morevars>>

SpecClient == InitClient /\ [][NextClient]_vars

-----------------------------------------------------------------------------
(* Specification of a dependency client called for several keys: one breaker
   and one cache serve all of them *)

InitClientKeys ==
    /\ CircuitBreakerInit /\ RedisCacheInit /\ ClientInit
    /\ failure_threshold = 1
    /\ success_threshold = 1
    /\ timeout = 1
    /\ ttl = MaxTTL
    /\ max_attempts \in 1..2
    /\ base_delay = 1
    /\ max_delay = MaxMaxDelay
    /\ RetryStart
    /\ RunIdle /\ GuardInit /\ ThreadsInit /\ CacheThreadsInit /\ SyncIdle /\ JobsInit

NextClientKeys ==
    \/ client_get_any /\ ClientFrame
    \/ client_can_attempt /\ ClientFrame
    \/ client_retry_step /\ ClientFrame
    \/ client_success /\ ClientFrame
    \/ client_failure /\ ClientFrame
    \/ CacheTick /\ UNCHANGED <<runvars, retryvars, guardvars, thrvars, morevars>>

SpecClientKeys == InitClientKeys /\ [][NextClientKeys]_vars

-----------------------------------------------------------------------------
(* Specification of the jobs that share one breaker *)

InitJobs ==
    /\ CircuitBreakerInit /\ JobsInit
    /\ RunIdle /\ RetryIdle /\ CacheIdle /\ GuardInit /\ ThreadsInit
    /\ CacheThreadsInit /\ ClientIdle /\ SyncIdle

JobsFrame == UNCHANGED <<runvars, retryvars, cachevars, guardvars, thrvars, cthrvars,
                         clientvars, syncvars>>

NextJobs ==
    \/ (\E j \in Jobs : job_can_attempt(j)) /\ JobsFrame
    \/ (\E j \in Jobs : job_returns(j)) /\ JobsFrame
    \/ (\E j \in Jobs : job_raises(j)) /\ JobsFrame
    \/ Tick /\ UNCHANGED <<runvars, retryvars, cachevars, guardvars, thrvars, morevars>>

SpecJobs == InitJobs /\ [][NextJobs]_vars

-----------------------------------------------------------------------------
(* with_retry (resilience.py:126-139): tenacity's retry loop with
   stop_after_attempt, wait_exponential and reraise=True, run next to
   with_async_retry on the same outcomes of func *)

OutcomeSeqs == [1..(MaxAttempts + 1) -> BOOLEAN]

\* resilience.py:134  stop=stop_after_attempt(max_attempts): tested after an
\* attempt failed, attempt_number >= max_attempt_number
stop_after_attempt(n) == n >= max_attempts

\* resilience.py:135  wait=wait_exponential(multiplier=base_delay, max=max_delay):
\* min(multiplier * 2 ** (attempt_number - 1), max), not below 0
wait_exponential(n) == Min(base_delay * Pow2(n - 1), max_delay)

SyncStart ==
    /\ s_pc = "call"
    /\ s_attempt_number = 1
    /\ s_delay = 0
    /\ s_calls = 0
    /\ s_delays = <<>>
    /\ s_returned = None
    /\ s_raised = None

\* func returns: the decorated call returns its result
sync_attempt_returns ==
    /\ s_pc = "call"
    /\ outcomes[s_calls + 1]
    /\ s_calls' = s_calls + 1
    /\ s_returned' = s_calls + 1
    /\ s_pc' = "returned"
    /\ UNCHANGED <<outcomes, s_attempt_number, s_delay, s_delays, s_raised>>

\* func raises an exception of the retried types: stop is consulted; when it
\* says stop the exception is re-raised (reraise=True), else the wait is computed
sync_attempt_raises ==
    /\ s_pc = "call"
    /\ ~outcomes[s_calls + 1]
    /\ s_calls' = s_calls + 1
    /\ IF stop_after_attempt(s_attempt_number)
       THEN /\ s_raised' = s_calls + 1
            /\ s_pc' = "raised"
            /\ UNCHANGED s_delay
       ELSE /\ s_delay' = wait_exponential(s_attempt_number)
            /\ s_pc' = "sleep"
            /\ UNCHANGED s_raised
    /\ UNCHANGED <<outcomes, s_attempt_number, s_delays, s_returned>>

\* time.sleep of the wait, then the next attempt
sync_sleep ==
    /\ s_pc = "sleep"
    /\ s_delays' = Append(s_delays, s_delay)
    /\ s_attempt_number' = s_attempt_number + 1
    /\ s_pc' = "call"
    /\ UNCHANGED <<outcomes, s_delay, s_calls, s_returned, s_raised>>

\* with_async_retry on the same outcomes
async_attempt_returns == outcomes[calls + 1] /\ attempt_returns
async_attempt_raises == ~outcomes[calls + 1] /\ attempt_raises

-----------------------------------------------------------------------------
(* Specification of with_retry and with_async_retry called with the same
   arguments on a func with the same outcomes *)

InitRetryPair ==
    /\ RetryInit
    /\ outcomes \in OutcomeSeqs
    /\ SyncStart
    /\ CBIdle /\ RunIdle /\ CacheIdle /\ GuardInit /\ ThreadsInit
    /\ CacheThreadsInit /\ ClientIdle /\ JobsInit

AsyncFrame == UNCHANGED <<cbvars, runvars, cachevars, guardvars, thrvars, cthrvars,
                          clientvars, syncvars, jobvars>>
SyncFrame == UNCHANGED <<cbvars, runvars, retryvars, cachevars, guardvars, thrvars,
                         cthrvars, clientvars, jobvars>>

NextRetryPair ==
    \/ async_attempt_returns /\ AsyncFrame
    \/ async_attempt_raises /\ AsyncFrame
    \/ retry_sleep /\ AsyncFrame
    \/ loop_exits /\ AsyncFrame
    \/ sync_attempt_returns /\ SyncFrame
    \/ sync_attempt_raises /\ SyncFrame
    \/ sync_sleep /\ SyncFrame

SpecRetryPair == InitRetryPair /\ [][NextRetryPair]_vars

-----------------------------------------------------------------------------
(* Properties of the CircuitBreaker, checked under SpecCB *)

\* C1: for every failure_threshold N >= 1, N consecutive record_failure()
\* calls from CLOSED with failure_count 0 leave the breaker CLOSED after each
\* of the first N-1 calls and OPEN after the Nth, and a can_attempt() made
\* right after, before the timeout has elapsed, returns False.
C1_OpensOnNthFailure ==
    /\ (fail_streak >= 1 /\ fail_streak < failure_threshold) => state = CLOSED
    /\ (fail_streak # Broken /\ fail_streak >= failure_threshold) => state = OPEN
    /\ ( /\ cb_op = "can_attempt"
         /\ fail_streak = failure_threshold
         /\ now - last_failure_time < timeout ) => (cb_ret = FALSE /\ state = OPEN)

C1_Witness ==
    /\ failure_threshold = MaxFailureThreshold
    /\ fail_streak = failure_threshold
    /\ cb_op = "can_attempt"
    /\ pre_state = OPEN
    /\ cb_ret = FALSE

\* C2: on a breaker that has been OPEN for at least timeout since
\* last_failure_time, can_attempt() moves it to HALF_OPEN with success_count 0
\* and returns True; record_failure() in HALF_OPEN returns it to OPEN with
\* success_count 0, whatever success_count was.
C2_HalfOpenProbation ==
    /\ ( /\ cb_op = "can_attempt"
         /\ pre_state = OPEN
         /\ last_failure_time # None
         /\ now - last_failure_time >= timeout )
       => (state = HALF_OPEN /\ success_count = 0 /\ cb_ret = TRUE)
    /\ (cb_op = "record_failure" /\ pre_state = HALF_OPEN)
       => (state = OPEN /\ success_count = 0)

C2_Witness ==
    /\ cb_op = "record_failure"
    /\ pre_state = HALF_OPEN
    /\ pre_success_count >= 1
    /\ state = OPEN

\* C3: from HALF_OPEN, success_threshold consecutive record_success() calls
\* (no record_failure in between) move the breaker to CLOSED with both
\* counters 0; fewer leave it HALF_OPEN.
C3_HalfOpenRecovery ==
    /\ (succ_streak # Broken /\ succ_streak < success_threshold) => state = HALF_OPEN
    /\ (succ_streak = success_threshold)
       => (state = CLOSED /\ failure_count = 0 /\ success_count = 0)

C3_Witness ==
    /\ success_threshold = MaxSuccessThreshold
    /\ succ_streak = success_threshold
    /\ cb_op = "record_success"
    /\ pre_state = HALF_OPEN
    /\ state = CLOSED

-----------------------------------------------------------------------------
(* Properties of the phased runner, checked under SpecRun *)

Finished == pc \in {"returned", "raised"}

\* the run document was created and every phase-status write was applied
StatusWritesOk ==
    /\ run_doc.exists
    /\ \A i \in 1..Len(writes) :
          writes[i].status \in {"done", "error"} => writes[i].ok

\* every write the job issued was applied
AllWritesOk == \A i \in 1..Len(writes) : writes[i].ok

\* C4: a phase status of the run record only ever moves pending -> done or
\* pending -> error; in particular a phase marked done is never changed later.
C4_StatusOnlyLeavesPending ==
    [][\A p \in PhaseSet :
          run_doc'.status[p] # run_doc.status[p] => run_doc.status[p] = "pending"]_vars

\* C5: stage A (market) succeeds and stage B (news) raises: the persisted
\* record ends with market = done, news = error, signal and report = error,
\* A's outputs present and the outputs of the later phases still empty.
C5_SucceedThenRaise ==
    (pc = "raised" /\ failed_phase = "news" /\ AllWritesOk) =>
        /\ run_doc.status["market"] = "done"
        /\ run_doc.status["news"] = "error"
        /\ run_doc.status["signal"] = "error"
        /\ run_doc.status["report"] = "error"
        /\ run_doc.fields["market_snapshot"] = "out"
        /\ run_doc.fields["event_context"] = "out"
        /\ \A f \in {"news_context", "signal", "decision", "report"} :
              run_doc.fields[f] = "empty"

\* C6: after a stage raised at phase i and the error-marking writes were
\* applied, phase i and every later phase are error; none is left pending.
C6_FailedAndLaterPhasesError ==
    (pc = "raised" /\ StatusWritesOk) =>
        \A p \in PhaseSet :
            PhaseIndex(p) >= PhaseIndex(failed_phase) => run_doc.status[p] = "error"

C6_Witness ==
    /\ pc = "raised"
    /\ StatusWritesOk
    /\ failed_phase = "news"
    /\ run_doc.status["news"] = "error"
    /\ run_doc.status["report"] = "error"

\* C7: once the record exists, no phase status moves from done or error back
\* to pending, whatever the stage and persistence outcomes.
C7_NeverBackToPending ==
    [][\A p \in PhaseSet :
          (run_doc.exists /\ run_doc.status[p] \in {"done", "error"})
             => run_doc'.status[p] \in {"done", "error"}]_vars

C7_Witness ==
    /\ pc = "returned"
    /\ other_runs = 1
    /\ run_doc.exists
    /\ run_doc.status["market"] = "done"
    /\ run_doc.status["report"] = "done"

C9_SelectionStop ==
    /\ (requires_market_selection /\ Len(executed) >= 2 /\ failed_phase = "none")
          => pc \in {"update_selection", "returned"}
    /\ (requires_market_selection /\ pc = "returned") =>
          /\ executed = <<"market_agent", "event_agent">>
          /\ Len(writes) = 2
          /\ writes[2].phase = "market"
          /\ writes[2].status = "done"
          /\ \A p \in PhaseSet : run_doc.status[p] # "error"
          /\ (run_doc.exists /\ writes[2].ok) =>
                /\ run_doc.status["market"] = "done"
                /\ run_doc.fields["event_context"] = "out"
                /\ run_doc.fields["market_options"] = "out"

C9_Witness ==
    /\ requires_market_selection
    /\ pc = "returned"
    /\ run_doc.exists
    /\ writes[Len(writes)].ok
    /\ run_doc.fields["market_options"] = "out"

-----------------------------------------------------------------------------
(* Properties of with_async_retry, checked under SpecRetry *)

\* C10: for every max_attempts M >= 1, an operation that fails on every
\* attempt is invoked exactly M times, and the exception raised to the caller
\* is the one of the M-th invocation.
C10_ExhaustionAfterMaxAttempts ==
    /\ calls <= max_attempts
    /\ (max_attempts >= 1 /\ rpc = "raised") =>
          /\ calls = max_attempts
          /\ raised_exception = max_attempts
    /\ (max_attempts >= 1 /\ rpc = "loop" /\ returned_value = None) =>
          loop_continues(attempt)

C10_Witness ==
    /\ max_attempts = MaxAttempts
    /\ rpc = "raised"
    /\ calls = MaxAttempts
    /\ raised_exception = MaxAttempts

\* C11: the delay slept between failed attempt k and attempt k+1 (k >= 1,
\* k < max_attempts) is min(base_delay * 2^(k-1), max_delay); no delay exceeds
\* max_delay and the delays are non-decreasing in k.
C11_BackoffDelays ==
    /\ (max_attempts >= 1) => Len(delays) <= max_attempts - 1
    /\ \A k \in 1..Len(delays) :
          /\ k < max_attempts
          /\ delays[k] = IF base_delay * 2^(k - 1) <= max_delay
                         THEN base_delay * 2^(k - 1) ELSE max_delay
          /\ delays[k] <= max_delay
          /\ (k > 1) => delays[k - 1] <= delays[k]

C11_Witness ==
    /\ Len(delays) = 3
    /\ delays[1] < delays[2]
    /\ delays[2] < delays[3]
    /\ delays[3] = max_delay
    /\ base_delay * 4 > max_delay

-----------------------------------------------------------------------------
(* Properties of the in-process TTLCache, checked under SpecCache *)

\* C12: get(key) returns the value of the latest set(key, v) exactly while
\* now - storedAt < ttl, and returns None for every get at or after
\* storedAt + ttl, until a new set of that key.
C12_GetVisibleWithinTtl ==
    (c_op = "get") =>
        c_ret = IF /\ last_set[c_key] # NoEntry
                   /\ now - last_set[c_key].ts < ttl
                THEN last_set[c_key].value
                ELSE "None"

C12_Witness ==
    /\ c_op = "get"
    /\ ttl >= 1
    /\ last_set[c_key] # NoEntry
    /\ now - last_set[c_key].ts = ttl
    /\ c_ret = "None"

\* C13: cleanup_expired() removes exactly the entries with
\* now - storedAt >= ttl, leaves every live entry and its timestamp untouched,
\* and returns the number of entries it removed.
C13_CleanupRemovesExpired ==
    (c_op = "cleanup_expired") =>
        /\ \A k \in Keys :
              cache[k] = IF c_pre[k] # NoEntry /\ now - c_pre[k].ts >= ttl
                         THEN NoEntry
                         ELSE c_pre[k]
        /\ c_removed = Cardinality({k \in Keys : /\ c_pre[k] # NoEntry
                                                  /\ now - c_pre[k].ts >= ttl})

C13_Witness ==
    /\ c_op = "cleanup_expired"
    /\ ttl >= 1
    /\ \A k \in Keys : c_pre[k] # NoEntry /\ cache[k] = NoEntry
    /\ c_removed = 2

-----------------------------------------------------------------------------
(* Properties of the RedisCache, checked under SpecRedis *)

\* C14: once a RedisCache instance has downgraded to the in-process backend
\* (at connect time or after a failed operation), no later get or set on that
\* instance calls the Redis client again, even when the call would succeed.
C14_NoBackendAfterDowngrade ==
    (c_op \in {"get", "set"} /\ pre_downgraded) => ~c_backend

C14_Witness ==
    /\ c_op \in {"get", "set"}
    /\ pre_downgraded
    /\ client
    /\ error_seen
    /\ ~c_backend
    /\ c_raised = "none"

\* C15: if a connected RedisCache hits a backend error on any operation (get,
\* set or clear), the cache switches to the in-process backend for all further
\* operations of that instance, and the backend error is not raised to the
\* caller of get/set.
C15_SwitchOnAnyError ==
    /\ error_seen => use_fallback(connected, client)
    /\ (pre_error_seen /\ c_op \in {"get", "set", "clear", "cleanup_expired"})
          => ~c_backend
    /\ (c_op \in {"get", "set"} /\ c_error) => c_raised = "none"

-----------------------------------------------------------------------------
(* Properties of a call guarded by a breaker, checked under SpecGuard *)

\* C16: for a call guarded by a breaker with failure_threshold = 2, two
\* consecutive failing invocations open the breaker, and a third invocation
\* made before the timeout elapses is refused with the breaker-open
\* RuntimeError without the underlying call being executed.
C16_RefusedAfterTwoFailures ==
    (failure_threshold = 2 /\ g_fail_run >= 2) =>
        /\ (gpc = "idle") => state = OPEN
        /\ (cb_op = "can_attempt" /\ now - last_failure_time < timeout) =>
              /\ g_outcome = "refused"
              /\ g_calls = g_pre_calls
              /\ gpc = "idle"

C16_Witness ==
    /\ failure_threshold = 2
    /\ g_fail_run = 2
    /\ g_calls = 2
    /\ cb_op = "can_attempt"
    /\ g_outcome = "refused"

-----------------------------------------------------------------------------
(* Invariants of the CircuitBreaker fields, checked under SpecCB *)

\* C17: in every state reachable by any sequence of can_attempt,
\* record_success, record_failure and reset calls, state = OPEN implies that
\* last_failure_time is set (not None).
C17_OpenHasFailureTime ==
    (state = OPEN) => last_failure_time # None

C17_Witness ==
    /\ state = OPEN
    /\ pre_op = "reset"
    /\ cb_op = "record_failure"
    /\ last_failure_time = now
    /\ now >= 1

\* C18: in every state reachable by any sequence of can_attempt,
\* record_success, record_failure and reset calls, state = CLOSED implies
\* failure_count < failure_threshold.
C18_ClosedBelowThreshold ==
    (state = CLOSED) => failure_count < failure_threshold

C18_Witness ==
    /\ state = CLOSED
    /\ cb_op = "record_success"
    /\ pre_state = HALF_OPEN
    /\ failure_count = 0
    /\ failure_threshold >= 2

\* C19: reset() called in any breaker state (CLOSED, OPEN or HALF_OPEN, with any
\* counter values) leaves the breaker CLOSED with failure_count = 0,
\* success_count = 0 and last_failure_time None, and a can_attempt() made right
\* after returns True.
C19_ResetClears ==
    /\ (cb_op = "reset") =>
          /\ state = CLOSED
          /\ failure_count = 0
          /\ success_count = 0
          /\ last_failure_time = None
    /\ (cb_op = "can_attempt" /\ pre_op = "reset") =>
          /\ cb_ret
          /\ state = CLOSED

C19_Witness ==
    /\ cb_op = "reset"
    /\ pre_state = HALF_OPEN
    /\ pre_success_count >= 1
    /\ state = CLOSED
    /\ last_failure_time = None

-----------------------------------------------------------------------------
(* Properties of a breaker shared by threads, checked under SpecThreads *)

\* C20: record_failure on one shared breaker is safe under concurrent callers:
\* no update to failure_count is lost, so after k record_failure calls have
\* completed on a CLOSED breaker with no intervening success or reset,
\* failure_count is exactly k and the breaker is OPEN whenever
\* k >= failure_threshold.
C20_NoLostFailure ==
    (no_success /\ \A t \in Threads : tpc[t] = "idle") =>
        /\ failure_count = t_completed
        /\ (t_completed >= failure_threshold) => state = OPEN

-----------------------------------------------------------------------------
(* Properties of a TTLCache shared by threads, checked under SpecCacheThreads *)

\* C21: get, set and cleanup_expired on one shared TTLCache are safe under
\* concurrent callers: no operation fails because of the interleaving, and a
\* live entry written by a completed set is never removed by a racing get or
\* cleanup that had observed the key's earlier expired entry.
C21_SafeUnderThreads ==
    /\ ~ct_raised
    /\ ~ct_removed_live

-----------------------------------------------------------------------------
(* Properties of a dependency client, checked under SpecClient *)

\* C22: the breaker observes only the aggregate outcome of a retried call: one
\* call of the client whose operation fails on all max_attempts attempts
\* increases failure_count by exactly 1, and one call whose operation succeeds
\* after some failed attempts records exactly one success and no failure.
C22_AggregateOutcome ==
    /\ (kpc = "idle" /\ k_op = "failed") =>
          /\ calls = max_attempts
          /\ k_failures = 1
          /\ k_successes = 0
          /\ failure_count = k_pre_fc + 1
    /\ (kpc = "idle" /\ k_op = "ok") =>
          /\ k_successes = 1
          /\ k_failures = 0

\* C23: when can_attempt() returns False, the client invokes the underlying
\* operation zero times, waits no retry delay, records neither success nor
\* failure on the breaker, and reports unavailability to its caller (the
\* breaker-open RuntimeError or the empty fallback result).
C23_RefusedWithoutCall ==
    (k_step = "can_attempt" /\ ~cb_ret) =>
        /\ kpc = "idle"
        /\ calls = 0
        /\ delays = <<>>
        /\ k_successes = 0
        /\ k_failures = 0
        /\ failure_count = k_pre_fc
        /\ k_result = IF k_kind = "polymarket" THEN "RuntimeError" ELSE "fallback"

C23_Witness ==
    /\ k_step = "can_attempt"
    /\ ~cb_ret
    /\ state = OPEN
    /\ k_kind = "tavily"
    /\ k_result = "fallback"
    /\ k_count >= 2


-----------------------------------------------------------------------------
(* Persistence failures of the phased runner, checked under SpecRun *)

\* phased_analysis.py:58-152  the agents of a job that needs no market
\* selection, in the order the task calls them
expected_agents ==
    <<"market_agent", "event_agent">>
    \o (IF use_tavily_prompt_agent THEN <<"tavily_prompt_agent">> ELSE <<>>)
    \o <<"news_agent">>
    \o (IF use_news_summary_agent THEN <<"news_summary_agent">> ELSE <<>>)
    \o <<"prob_agent", "strategy_agent", "report_agent">>

IsPrefix(s, t) == Len(s) <= Len(t) /\ \A i \in 1..Len(s) : s[i] = t[i]

ErrorWrites == {i \in 1..Len(writes) : writes[i].status = "error"}

\* C24: as long as no stage raised, failed per-phase writes change nothing in
\* the control flow: the stages run in their order, the error handler is never
\* entered, no phase is marked error, and a job that needs no market selection
\* finishes by returning after every stage ran.
C24_WriteFailureDoesNotStop ==
    failed_phase = "none" =>
        /\ pc \notin {"mark_error", "raised"}
        /\ ErrorWrites = {}
        /\ \A p \in PhaseSet : run_doc.status[p] # "error"
        /\ IsPrefix(executed, expected_agents)
        /\ (pc = "returned" /\ ~requires_market_selection) => executed = expected_agents
C24_Witness ==
    /\ pc = "returned" /\ ~requires_market_selection /\ executed = expected_agents
    /\ Write("market", "done", FALSE) \in Range(writes)
    /\ Write("news", "done", FALSE) \in Range(writes)
    /\ Write("signal", "done", FALSE) \in Range(writes)

\* C25: when the final snapshot write fails, the task returns normally and the
\* phase statuses are exactly what the per-phase writes left: every phase whose
\* done write was applied is done and no phase is error.
C25_SnapshotFailureSwallowed ==
    (Len(writes) > 0 /\ writes[Len(writes)] = Write("snapshot", "final", FALSE)) =>
        /\ pc = "returned"
        /\ ErrorWrites = {}
        /\ \A p \in PhaseSet :
              /\ run_doc.status[p] # "error"
              /\ (run_doc.exists /\ Write(p, "done", TRUE) \in Range(writes))
                    => run_doc.status[p] = "done"
C25_Witness ==
    /\ Len(writes) > 0 /\ writes[Len(writes)] = Write("snapshot", "final", FALSE)
    /\ pc = "returned"
    /\ \A p \in PhaseSet : run_doc.status[p] = "done"

C27_ErrorMarkKeepsOutputs ==
    [][pc = "mark_error" =>
          /\ run_doc'.fields = run_doc.fields
          /\ run_doc'.ids = run_doc.ids
          /\ run_doc'.exists = run_doc.exists]_vars
C27_Witness ==
    /\ pc = "raised" /\ failed_phase = "signal" /\ run_doc.exists
    /\ run_doc.fields["market_snapshot"] = "out"
    /\ run_doc.fields["news_context"] = "out"
    /\ run_doc.status["market"] = "error"
    /\ run_doc.status["news"] = "error"

\* C28: from acceptance on, the runs collection holds exactly one run document
\* for the job: the one init_run_document_async inserted, and no other.
C28_ExactlyOneRunDocument ==
    (pc # "start" /\ Len(writes) > 0 /\ writes[1].ok) =>
        /\ run_doc.exists
        /\ other_runs = 0


-----------------------------------------------------------------------------
(* Entry into HALF_OPEN, checked under SpecCB *)

-----------------------------------------------------------------------------
(* with_retry against with_async_retry, checked under SpecRetryPair *)

BothFinished == rpc \in {"returned", "raised"} /\ s_pc \in {"returned", "raised"}

\* C29: called with the same max_attempts, base_delay and max_delay on a func
\* with the same outcomes, with_retry and with_async_retry invoke func the same
\* number of times, sleep the same delays and end with the same result or the
\* same exception.
C29_SameSemantics ==
    BothFinished =>
        /\ calls = s_calls
        /\ delays = s_delays
        /\ returned_value = s_returned
        /\ raised_exception = s_raised


-----------------------------------------------------------------------------
(* Exhaustion and waiting of with_async_retry, checked under SpecRetry *)

\* C32: when the attempts are exhausted, the exception raised to the caller is
\* the one of the last attempt and carries the number of attempts made.
C32_AnnotatedWithAttempts ==
    (rpc = "raised" /\ calls >= 1) =>
        /\ propagated(raised_exception).failure = last_exception
        /\ propagated(raised_exception).attempts = attempt

\* C39: a call that first succeeds on attempt j makes exactly j invocations,
\* returns that result and has slept exactly j - 1 delays; a call whose
\* max_attempts attempts all fail has slept exactly max_attempts - 1 delays
\* (none when max_attempts = 0): it never sleeps after the last failed attempt.
C39_CallsAndWaits ==
    /\ rpc = "returned" =>
          /\ calls = returned_value
          /\ calls <= max_attempts
          /\ attempt = calls - 1
          /\ Len(delays) = calls - 1
    /\ rpc = "raised" =>
          /\ calls = max_attempts
          /\ Len(delays) = IF max_attempts = 0 THEN 0 ELSE max_attempts - 1
    /\ rpc = "sleep" => (attempt < max_attempts /\ Len(delays) = attempt - 1)
    /\ rpc = "loop" => Len(delays) = attempt
C39_Witness ==
    /\ rpc = "returned" /\ max_attempts = MaxAttempts /\ calls = MaxAttempts
    /\ Len(delays) = MaxAttempts - 1


-----------------------------------------------------------------------------
(* Downgrade of RedisCache on a failed set, checked under SpecRedis *)

\* the last call was a set whose Redis call raised ConnectionError or RedisError
FailedBackendSet == c_op = "set" /\ c_backend /\ c_error

\* C38: after a set(key, v) whose Redis call failed, the instance is
\* disconnected and v itself is in the in-process fallback, stamped with the
\* time of the set, so a get of that key at any time within ttl returns v; a
\* get on a disconnected instance answers from the fallback only, so a key that
\* was written to Redis alone is not returned.
C38_FailedSetFallsBack ==
    [][/\ FailedBackendSet' =>
             /\ ~connected'
             /\ c_raised' = "none"
             /\ cache'[c_key'] = [value |-> c_value', ts |-> now']
             /\ \A t \in now'..(now' + MaxTTL) :
                   (t - now' < ttl') => TTLCache_get_value(cache', c_key', t) = c_value'
       /\ (FailedBackendSet /\ c_op' = "get" /\ c_key' = c_key) => c_ret' = c_value
       /\ (~connected /\ c_op' = "get") =>
             /\ c_ret' = TTLCache_get_value(cache, c_key', now)
             /\ (cache[c_key'] = NoEntry) => c_ret' = "None"]_vars
C38_Witness ==
    /\ FailedBackendSet /\ c_key = "k1" /\ c_value = "tuple" /\ ~pre_downgraded
    /\ cache["k1"].value = "tuple"
    /\ cache["k2"] = NoEntry /\ redis_get("k2") # "None"


-----------------------------------------------------------------------------
(* Frame of the OPEN state, checked under SpecCB *)

breaker_fields == <<state, failure_count, success_count, last_failure_time>>

\* C36: on an OPEN breaker, record_success changes no field, can_attempt
\* before the timeout has elapsed returns False and changes no field, and the
\* only steps that leave OPEN are reset (to CLOSED) and can_attempt once the
\* timeout has elapsed (to HALF_OPEN with success_count 0, returning True).
C36_OpenFrame ==
    [][state = OPEN =>
          /\ cb_op' = "record_success" => UNCHANGED breaker_fields
          /\ (cb_op' = "can_attempt" /\ now - last_failure_time < timeout) =>
                (~cb_ret' /\ UNCHANGED breaker_fields)
          /\ state' # OPEN =>
                \/ cb_op' = "reset" /\ state' = CLOSED
                \/ /\ cb_op' = "can_attempt" /\ state' = HALF_OPEN
                   /\ last_failure_time # None
                   /\ now - last_failure_time >= timeout
                   /\ success_count' = 0 /\ cb_ret'
                   /\ UNCHANGED <<failure_count, last_failure_time>>]_vars
C36_Witness ==
    /\ state = OPEN /\ pre_state = OPEN /\ cb_op = "record_success"
    /\ pre_op = "can_attempt" /\ ~cb_ret /\ failure_count >= 2


-----------------------------------------------------------------------------
(* Order of the done markers, checked under SpecRun *)

\* C37: in every state of the run document, the phases marked done form a
\* prefix of market, news, signal, report: no phase is done while an earlier
\* phase is still pending.
C37_DoneIsPrefix ==
    \A i \in 1..Len(Phases), j \in 1..Len(Phases) :
        (i < j /\ run_doc.status[Phases[j]] = "done")
            => run_doc.status[Phases[i]] # "pending"


-----------------------------------------------------------------------------
(* Cache and breaker in the dependency clients, checked under SpecClientKeys
   (C31, C40) and SpecClient (C33) *)

C33_SuccessRecordedOnce ==
    k_step = "success" =>
        /\ k_successes = 1
        /\ k_failures = 0
        /\ k_result = "value"

\* the last call was refused by the breaker, or its operation failed on every
\* attempt
NoResult == kpc = "idle" /\ k_step \in {"can_attempt", "failure"}

\* C40 as stated: after a call that was refused or whose operation failed on
\* every attempt, the cache holds what it held when the call began.
C40_CacheAsBefore ==
    NoResult => visible_content(now) = still_visible(k_before, now)

\* C40, amended: such a call performs no write on the cache; between its lookup
\* and its end no cache field changes, its key has no live entry afterwards, and
\* the cache holds what it held before unless the lookup itself hit a backend
\* error and switched the instance to its in-process fallback.
C40_NoCacheWrite ==
    [][/\ (kpc \in {"breaker", "retry"} /\ k_step' # "success") => UNCHANGED cache_fields
       /\ NoResult' =>
             /\ visible_content(now)'[k_key'] = NoEntry
             /\ ~c_error' => visible_content(now)' = still_visible(k_before, now)']_vars
C40_Witness ==
    /\ NoResult /\ k_step = "failure" /\ k_key = "k1" /\ k_count >= 2
    /\ ~c_error
    /\ visible_content(now)["k2"] # NoEntry
    /\ visible_content(now) = still_visible(k_before, now)


-----------------------------------------------------------------------------
(* Probes of a HALF_OPEN breaker shared by concurrent jobs, checked under
   SpecJobs *)

\* the calls in flight that can_attempt() admitted in HALF_OPEN
Probes == {j \in Jobs : jpc[j] = "inflight" /\ j_admitted[j] = HALF_OPEN}

\* C34: at most one call admitted by can_attempt() in HALF_OPEN is in flight at
\* any time, also when several jobs share the breaker.
C34_OneProbeAtATime == Cardinality(Probes) <= 1

\* C35: record_success advances success_count (or closes the breaker) only for
\* a call that was admitted in the half-open period running now.
C35_OnlyCurrentProbesCount == ~stale_counted

=============================================================================
